---- MODULE Spec2Model ----
(***************************************************************************)
(* The conversation store of the chat application: the reducer of          *)
(* contexts/ChatContext.tsx, the provider's handlers and effects, the      *)
(* localStorage mirror of lib/storage, and the sidebar that dispatches the *)
(* selection of a conversation.                                            *)
(*                                                                         *)
(* Text is a sequence of one-character strings.  A point in time is a      *)
(* number of milliseconds; the wall clock `now` never runs backwards.      *)
(***************************************************************************)
EXTENDS Integers, Sequences, FiniteSets, TLC

VARIABLES
    state,                  \* ChatState held by useReducer
    now,                    \* Date.now()
    pending,                \* sendMessage calls suspended at their await
    lsConversations,        \* localStorage['ai-chat-conversations']
    lsCurrent,              \* localStorage['ai-chat-current-conversation']
    searchQuery,            \* ConversationSidebar: useState('')
    filteredConversations,  \* ConversationSidebar: the list the sidebar renders
    searchTimers,           \* debounce timers of handleSearch not yet fired
    timerIsCurrent,         \* the newest timer belongs to the current handleSearch
    loadResult,             \* outcome of the last conversationStorage.load()
    isDev,                  \* no VITE_API_BASE_URL and no VITE_OPENAI_API_KEY is set,
                            \* as the catch block of sendMessage has found it
    randomDraws,            \* generateId calls made in the current millisecond
    nextSeq,                \* history: number of ADD_MESSAGE actions dispatched
    toasts,                 \* the toasts the latest handler has raised
    rateLimitMap,           \* lib/validation: the records of checkRateLimit
    rateLog,                \* history: the checkRateLimit calls made so far
    lsSettings,             \* localStorage['ai-chat-settings']
    lsUserData,             \* localStorage['ai-chat-user-data']
    saveResult,             \* outcome of the last save call of lib/storage
    stream,                 \* a run of createStreamingChatCompletion
    evaluated               \* a call of a function of the libraries: input and output

vars == << state, now, pending, lsConversations, lsCurrent, searchQuery,
           filteredConversations, searchTimers, timerIsCurrent, loadResult,
           isDev, randomDraws, nextSeq, toasts, rateLimitMap, rateLog,
           lsSettings, lsUserData, saveResult, stream, evaluated >>

\* what the store and its handlers leave alone
auxVars ==
    << rateLimitMap, rateLog, lsSettings, lsUserData, saveResult, stream, evaluated >>

(***************************************************************************)
(* Bounds of the model.                                                    *)
(***************************************************************************)
MaxTime == 1
MaxDraws == 3
MaxConvs == 3
MaxMsgs == 3
MaxTimers == 2
MaxStored == 2
MaxCalls == 5
RateHorizon == 5

(***************************************************************************)
(* Sequences.                                                              *)
(***************************************************************************)
Range(s) == { s[i] : i \in 1..Len(s) }

\* s.filter(keep)
SeqFilter(s, keep(_)) == SelectSeq(s, keep)

\* s.map(f)
SeqMap(s, f(_)) == [ i \in 1..Len(s) |-> f(s[i]) ]

(***************************************************************************)
(* Text.                                                                   *)
(***************************************************************************)
\* the characters String.prototype.trim removes
IsSpace(ch) == ch \in { " ", "\n", "\t" }

RECURSIVE TrimStart(_)
TrimStart(s) ==
    IF s # << >> /\ IsSpace(Head(s)) THEN TrimStart(Tail(s)) ELSE s

RECURSIVE TrimEnd(_)
TrimEnd(s) ==
    IF s # << >> /\ IsSpace(s[Len(s)]) THEN TrimEnd(SubSeq(s, 1, Len(s) - 1)) ELSE s

Trim(s) == TrimEnd(TrimStart(s))

Upper == << "A", "B", "C", "D", "E", "F", "G", "H", "I", "J", "K", "L", "M",
           "N", "O", "P", "Q", "R", "S", "T", "U", "V", "W", "X", "Y", "Z" >>

Lower == << "a", "b", "c", "d", "e", "f", "g", "h", "i", "j", "k", "l", "m",
           "n", "o", "p", "q", "r", "s", "t", "u", "v", "w", "x", "y", "z" >>

LowerChar(ch) ==
    IF \E i \in 1..Len(Upper) : Upper[i] = ch
    THEN Lower[CHOOSE i \in 1..Len(Upper) : Upper[i] = ch]
    ELSE ch

toLowerCase(s) == SeqMap(s, LowerChar)

includes(s, q) ==
    \E i \in 1..(Len(s) - Len(q) + 1) : SubSeq(s, i, i + Len(q) - 1) = q


IsTerminator(ch) == ch \in { ".", "!", "?" }

\* s.split(sep)[0]: the text before the first separator
FirstPiece(s, isSep(_)) ==
    LET hits == { i \in 1..Len(s) : isSep(s[i]) }
    IN  IF hits = {} THEN s
        ELSE SubSeq(s, 1, (CHOOSE i \in hits : \A j \in hits : i <= j) - 1)

\* s.split(sep): the pieces between the separators, empty pieces included
RECURSIVE Split(_, _)
Split(s, sep) ==
    LET hits == { i \in 1..Len(s) : s[i] = sep }
    IN  IF hits = {} THEN << s >>
        ELSE LET k == CHOOSE i \in hits : \A j \in hits : i <= j
             IN  << SubSeq(s, 1, k - 1) >> \o Split(SubSeq(s, k + 1, Len(s)), sep)

TitleLimit == 50

\* a variant of the loop that does not count the space it inserts
RECURSIVE TitleWords_noSpace(_, _)
TitleWords_noSpace(title, words) ==
    IF words = << >> THEN title
    ELSE IF Len(title) + Len(Head(words)) > TitleLimit THEN title
    ELSE TitleWords_noSpace(title \o (IF title # << >> THEN << " " >> ELSE << >>)
                                  \o Head(words),
                            Tail(words))

\* the loop of generateConversationTitle over the words, with its break
RECURSIVE TitleWords(_, _)
TitleWords(title, words) ==
    IF words = << >> THEN title
    ELSE IF Len(title) + 1 + Len(Head(words)) > TitleLimit THEN title
    ELSE TitleWords(title \o (IF title # << >> THEN << " " >> ELSE << >>) \o Head(words),
                    Tail(words))

generateConversationTitle(firstMessage) ==
    LET cleaned == Trim(firstMessage)
        sentence == FirstPiece(cleaned, IsTerminator)
        title == TitleWords(<< >>, Split(cleaned, " "))
    IN  IF Len(cleaned) <= TitleLimit THEN cleaned
        ELSE IF sentence # << >> /\ Len(sentence) <= TitleLimit THEN Trim(sentence)
        ELSE IF title # << >> THEN title
        ELSE SubSeq(cleaned, 1, TitleLimit)

(***************************************************************************)
(* The reducer.  An action is a record with a type and its payload; `t` is *)
(* the clock read by the `new Date()` calls inside the reducer.            *)
(***************************************************************************)
Null == << >>

NewChat == << "N", "e", "w", " ", "C", "h", "a", "t" >>

initialState ==
    [ conversations |-> << >>,
      currentConversationId |-> Null,
      isLoading |-> FALSE,
      sessionId |-> Null ]

SET_CONVERSATIONS(s, payload) == [ s EXCEPT !.conversations = payload ]

\* a variant of ADD_CONVERSATION that lists the new conversation twice
ADD_CONVERSATION_twice(s, payload) ==
    [ s EXCEPT !.conversations = << payload, payload >> \o s.conversations,
               !.currentConversationId = payload.id,
               !.sessionId = Null ]

ADD_CONVERSATION(s, payload) ==
    [ s EXCEPT !.conversations = << payload >> \o s.conversations,
               !.currentConversationId = payload.id,
               !.sessionId = Null ]

SET_CURRENT_CONVERSATION(s, payload) ==
    [ s EXCEPT !.currentConversationId = payload, !.sessionId = Null ]

\* a variant of ADD_MESSAGE that puts the message at the head of the list
ADD_MESSAGE_prepends(s, payload, t) ==
    LET add(conv) ==
            IF conv.id = payload.conversationId
            THEN [ conv EXCEPT !.messages = << payload.message >> \o conv.messages,
                               !.updatedAt = t ]
            ELSE conv
    IN  [ s EXCEPT !.conversations = SeqMap(s.conversations, add) ]

ADD_MESSAGE(s, payload, t) ==
    LET add(conv) ==
            IF conv.id = payload.conversationId
            THEN [ conv EXCEPT
                     !.messages = Append(conv.messages, payload.message),
                     !.updatedAt = t,
                     !.title = IF Len(conv.messages) = 0 /\ payload.message.role = "user"
                               THEN generateConversationTitle(payload.message.content)
                               ELSE conv.title,
                     \* history: how often the title was taken from a message
                     !.titleSets = IF Len(conv.messages) = 0 /\ payload.message.role = "user"
                                   THEN conv.titleSets + 1
                                   ELSE conv.titleSets ]
            ELSE conv
    IN  [ s EXCEPT !.conversations = SeqMap(s.conversations, add) ]

\* a variant of EDIT_MESSAGE that stamps the edited message with the time of the edit
EDIT_MESSAGE_stamps(s, payload, t) ==
    LET editMsg(msg) ==
            IF msg.id = payload.messageId
            THEN [ msg EXCEPT !.content = payload.content, !.timestamp = t ]
            ELSE msg
        edit(conv) ==
            IF conv.id = payload.conversationId
            THEN [ conv EXCEPT !.messages = SeqMap(conv.messages, editMsg),
                               !.updatedAt = t ]
            ELSE conv
    IN  [ s EXCEPT !.conversations = SeqMap(s.conversations, edit) ]

\* a variant of EDIT_MESSAGE that leaves updatedAt as it was
EDIT_MESSAGE_keepsTime(s, payload, t) ==
    LET editMsg(msg) ==
            IF msg.id = payload.messageId
            THEN [ msg EXCEPT !.content = payload.content ]
            ELSE msg
        edit(conv) ==
            IF conv.id = payload.conversationId
            THEN [ conv EXCEPT !.messages = SeqMap(conv.messages, editMsg) ]
            ELSE conv
    IN  [ s EXCEPT !.conversations = SeqMap(s.conversations, edit) ]

EDIT_MESSAGE(s, payload, t) ==
    LET editMsg(msg) ==
            IF msg.id = payload.messageId
            THEN [ msg EXCEPT !.content = payload.content ]
            ELSE msg
        edit(conv) ==
            IF conv.id = payload.conversationId
            THEN [ conv EXCEPT !.messages = SeqMap(conv.messages, editMsg),
                               !.updatedAt = t ]
            ELSE conv
    IN  [ s EXCEPT !.conversations = SeqMap(s.conversations, edit) ]

DELETE_MESSAGE(s, payload, t) ==
    LET keep(msg) == msg.id # payload.messageId
        del(conv) ==
            IF conv.id = payload.conversationId
            THEN [ conv EXCEPT !.messages = SeqFilter(conv.messages, keep),
                               !.updatedAt = t ]
            ELSE conv
    IN  [ s EXCEPT !.conversations = SeqMap(s.conversations, del) ]

SET_LOADING(s, payload) == [ s EXCEPT !.isLoading = payload ]

\* the earlier reducer: the pointer is cleared when the active conversation goes
DELETE_CONVERSATION_cleared(s, payload) ==
    LET keep(conv) == conv.id # payload
    IN  [ s EXCEPT !.conversations = SeqFilter(s.conversations, keep),
                   !.currentConversationId =
                       IF s.currentConversationId = payload
                       THEN Null ELSE s.currentConversationId ]

DELETE_CONVERSATION(s, payload) ==
    LET keep(conv) == conv.id # payload
        remainingConvs == SeqFilter(s.conversations, keep)
        newCurrentId ==
            IF s.currentConversationId = payload
            THEN (IF Len(remainingConvs) > 0 THEN remainingConvs[1].id ELSE Null)
            ELSE s.currentConversationId
    IN  [ s EXCEPT !.conversations = remainingConvs,
                   !.currentConversationId = newCurrentId,
                   !.sessionId = IF s.currentConversationId = payload
                                 THEN Null ELSE s.sessionId ]

SET_SESSION_ID(s, payload) == [ s EXCEPT !.sessionId = payload ]

chatReducer(s, action, t) ==
    CASE action.type = "SET_CONVERSATIONS" -> SET_CONVERSATIONS(s, action.payload)
      [] action.type = "ADD_CONVERSATION" -> ADD_CONVERSATION(s, action.payload)
      [] action.type = "SET_CURRENT_CONVERSATION" ->
            SET_CURRENT_CONVERSATION(s, action.payload)
      [] action.type = "ADD_MESSAGE" -> ADD_MESSAGE(s, action.payload, t)
      [] action.type = "EDIT_MESSAGE" -> EDIT_MESSAGE(s, action.payload, t)
      [] action.type = "DELETE_MESSAGE" -> DELETE_MESSAGE(s, action.payload, t)
      [] action.type = "SET_LOADING" -> SET_LOADING(s, action.payload)
      [] action.type = "DELETE_CONVERSATION" -> DELETE_CONVERSATION(s, action.payload)
      [] action.type = "SET_SESSION_ID" -> SET_SESSION_ID(s, action.payload)
      [] OTHER -> s

\* the reducer applied to the actions one handler dispatches, in order
RECURSIVE Dispatch(_, _, _)
Dispatch(s, actions, t) ==
    IF actions = << >> THEN s
    ELSE Dispatch(chatReducer(s, Head(actions), t), Tail(actions), t)

\* the actions that hand the store a new conversations array
ChangesConversations(action) ==
    action.type \in { "SET_CONVERSATIONS", "ADD_CONVERSATION", "ADD_MESSAGE",
                      "EDIT_MESSAGE", "DELETE_MESSAGE", "DELETE_CONVERSATION" }

(***************************************************************************)
(* JSON text.  A stored item is absent, the empty text, a text that does   *)
(* not parse, or a JSON document; a document is a tagged value.  A Date is *)
(* written as its ISO-8601 text and read back with `new Date(text)`.       *)
(***************************************************************************)
JNull == [ type |-> "null" ]
JNum(n) == [ type |-> "number", n |-> n ]
JStr(x) == [ type |-> "string", text |-> x ]
JBool(b) == [ type |-> "boolean", b |-> b ]
JObj(r) == [ type |-> "object", fields |-> r ]
JArr(items) == [ type |-> "array", items |-> items ]

NoItem == [ kind |-> "absent" ]
EmptyText == [ kind |-> "empty" ]
BadText == [ kind |-> "garbage" ]
JsonText(v) == [ kind |-> "json", value |-> v ]

InvalidDate == [ invalid |-> "Invalid Date" ]
Undefined == [ type |-> "undefined" ]

toISOString(t) == << "ISO", t >>

\* new Date(v) for a value read from a JSON document
NewDate(v) ==
    CASE v.type = "string" ->
            IF Len(v.text) = 2 /\ v.text[1] = "ISO" THEN v.text[2] ELSE InvalidDate
      [] v.type = "number" -> v.n
      [] v.type = "null" -> 0
      [] OTHER -> InvalidDate

\* value.field of a value read from a JSON document
Field(v, name) ==
    IF v.type = "object" /\ name \in DOMAIN v.fields THEN v.fields[name] ELSE Undefined

PlainScalar(v) ==
    CASE v.type = "string" -> v.text
      [] v.type = "number" -> v.n
      [] v.type = "boolean" -> v.b
      [] OTHER -> v

\* the value JSON.parse builds for a document that holds no Date
Plain(v) ==
    IF v.type = "array" THEN SeqMap(v.items, PlainScalar) ELSE PlainScalar(v)

\* a message without file ids has no attachments in its JSON text
MessageToJson(msg) ==
    LET fields == [ id |-> JStr(msg.id),
                    content |-> JStr(msg.content),
                    role |-> JStr(msg.role),
                    timestamp |-> JStr(toISOString(msg.timestamp)),
                    seq |-> JNum(msg.seq),
                    toActive |-> JBool(msg.toActive) ]
    IN  IF "attachments" \in DOMAIN msg
        THEN JObj(fields @@ [ attachments |-> JArr(SeqMap(msg.attachments, JStr)) ])
        ELSE JObj(fields)

ConversationToJson(conv) ==
    JObj([ id |-> JStr(conv.id),
           title |-> JStr(conv.title),
           messages |-> JArr(SeqMap(conv.messages, MessageToJson)),
           createdAt |-> JStr(toISOString(conv.createdAt)),
           updatedAt |-> JStr(toISOString(conv.updatedAt)),
           titleSets |-> JNum(conv.titleSets) ])

\* JSON.stringify(conversations)
Stringify(conversations) == JArr(SeqMap(conversations, ConversationToJson))

safeJsonParse(value, fallback) ==
    IF value.kind \in { "absent", "empty" } THEN fallback
    ELSE IF value.kind = "garbage" THEN fallback
    ELSE value.value

\* a variant of the messages callback that builds the timestamp from null
LoadedMessage_epoch(msg) ==
    IF msg.type = "object"
    THEN [ f \in DOMAIN msg.fields \cup { "timestamp" } |->
             IF f = "timestamp" THEN NewDate(JNull)
             ELSE Plain(msg.fields[f]) ]
    ELSE [ timestamp |-> InvalidDate ]

\* ({ ...msg, timestamp: new Date(msg.timestamp) })
LoadedMessage(msg) ==
    IF msg.type = "object"
    THEN [ f \in DOMAIN msg.fields \cup { "timestamp" } |->
             IF f = "timestamp" THEN NewDate(Field(msg, "timestamp"))
             ELSE Plain(msg.fields[f]) ]
    ELSE [ timestamp |-> InvalidDate ]

\* ({ ...conv, createdAt: ..., updatedAt: ..., messages: conv.messages.map(...) })
LoadedConversation(conv) ==
    [ f \in DOMAIN conv.fields \cup { "createdAt", "updatedAt", "messages" } |->
        CASE f = "createdAt" -> NewDate(Field(conv, "createdAt"))
          [] f = "updatedAt" -> NewDate(Field(conv, "updatedAt"))
          [] f = "messages" -> SeqMap(conv.fields.messages.items, LoadedMessage)
          [] OTHER -> Plain(conv.fields[f]) ]

\* reading a property of null, or calling .map on what is no array, throws
MessageThrows(msg) == msg.type = "null"

ConversationThrows(conv) ==
    \/ conv.type = "null"
    \/ Field(conv, "messages").type # "array"
    \/ \E i \in 1..Len(conv.fields.messages.items) :
            MessageThrows(conv.fields.messages.items[i])

Returned(v) == [ threw |-> FALSE, value |-> v ]
Thrown == [ threw |-> TRUE, value |-> << >> ]

conversationStorage_save(conversations) == JsonText(Stringify(conversations))

conversationStorage_load(data) ==
    LET conversations == safeJsonParse(data, JArr(<< >>))
    IN  IF conversations.type # "array" THEN Thrown
        ELSE IF \E i \in 1..Len(conversations.items) :
                    ConversationThrows(conversations.items[i])
        THEN Thrown
        ELSE Returned(SeqMap(conversations.items, LoadedConversation))

\* conversationStorage.delete: the item it leaves under the key
conversationStorage_delete(data, conversationId) ==
    LET keep(c) == c.id # conversationId
    IN  conversationStorage_save(SeqFilter(conversationStorage_load(data).value, keep))

\* a variant of currentConversationStorage.save that writes nothing
currentConversationStorage_save_skips(conversationId) == NoItem

\* currentConversationStorage.save: the item it leaves under the key
currentConversationStorage_save(conversationId) ==
    IF conversationId # Null THEN [ kind |-> "text", text |-> conversationId ]
    ELSE NoItem

\* currentConversationStorage.load: the stored text, or null
currentConversationStorage_load(data) ==
    IF data.kind = "text" THEN data.text ELSE Null

\* localStorage.setItem(key, text) on the item the key holds: when the quota is
\* used up the call throws and the item stays
setItem(item, text, full) ==
    [ threw |-> full, item |-> IF full THEN item ELSE text ]

\* conversationStorage.save as a call: whether it throws, and the item it leaves
conversationStorage_save_call(item, conversations, full) ==
    [ threw |-> FALSE,
      item |-> setItem(item, conversationStorage_save(conversations), full).item ]

\* currentConversationStorage.save as a call; removeItem does not throw
currentConversationStorage_save_call(item, conversationId, full) ==
    IF conversationId # Null
    THEN setItem(item, currentConversationStorage_save(conversationId), full)
    ELSE [ threw |-> FALSE, item |-> NoItem ]

\* ({ ...current, ...update }) of two objects of a JSON document
Spread(current, update) ==
    JObj([ f \in DOMAIN current.fields \cup DOMAIN update.fields |->
             IF f \in DOMAIN update.fields THEN update.fields[f]
             ELSE current.fields[f] ])

DefaultSettings == JObj([ theme |-> JStr("system"), fontSize |-> JStr("medium") ])

DefaultUserData == JObj([ name |-> JStr(""), email |-> JStr(""), avatar |-> JStr("") ])

\* settingsStorage.save as a call
settingsStorage_save_call(item, settings, full) ==
    LET current == safeJsonParse(item, DefaultSettings)
        updated == Spread(current, settings)
    IN  setItem(item, JsonText(updated), full)

\* userDataStorage.load
userDataStorage_load(item) == safeJsonParse(item, DefaultUserData)

\* userDataStorage.save as a call
userDataStorage_save_call(item, userData, full) ==
    LET current == userDataStorage_load(item)
        updated == Spread(current, userData)
    IN  setItem(item, JsonText(updated), full)

(***************************************************************************)
(* lib/utils-enhanced.                                                     *)
(***************************************************************************)
\* generateId at time t: `${Date.now()}-${random}`.  The random parts drawn within
\* one millisecond are taken to differ: the k-th draw of a millisecond yields k.
generateId(t, k) == << t, k >>

EscapeChar(ch) ==
    CASE ch = "&" -> << "&", "a", "m", "p", ";" >>
      [] ch = "<" -> << "&", "l", "t", ";" >>
      [] ch = ">" -> << "&", "g", "t", ";" >>
      [] OTHER -> << ch >>

\* sanitizeInput: the innerHTML of an element whose textContent is the input,
\* every character escaped where it stands
RECURSIVE sanitizeInput(_)
sanitizeInput(input) ==
    IF input = << >> THEN << >>
    ELSE IF Len(input) = 1 THEN EscapeChar(input[1])
    ELSE LET half == Len(input) \div 2
         IN  sanitizeInput(SubSeq(input, 1, half))
                \o sanitizeInput(SubSeq(input, half + 1, Len(input)))

searchConversations(conversations, query) ==
    LET lowerQuery == toLowerCase(query)
        hit(conversation) ==
            \/ includes(toLowerCase(conversation.title), lowerQuery)
            \/ \E i \in 1..Len(conversation.messages) :
                    includes(toLowerCase(conversation.messages[i].content), lowerQuery)
    IN  IF Trim(query) = << >> THEN conversations
        ELSE SeqFilter(conversations, hit)

(***************************************************************************)
(* lib/validation: the rate limiter.  rateLimitMap maps the keys that have *)
(* a record to their records.                                              *)
(***************************************************************************)
MaxMessageLength == 4000

\* messageContentSchema: min(1), max(4000), and not only whitespace
validateMessageContent(content) ==
    /\ Len(content) >= 1
    /\ Len(content) <= MaxMessageLength
    /\ Trim(content) # << >>

\* a variant of checkRateLimit that counts the calls it blocks
checkRateLimit_counts(map, key, maxRequests, windowMs, t) ==
    LET fresh == [ count |-> 1, resetTime |-> t + windowMs ]
        set(record) == [ k \in DOMAIN map \cup { key } |->
                           IF k = key THEN record ELSE map[k] ]
    IN  IF key \notin DOMAIN map THEN [ ok |-> TRUE, map |-> set(fresh) ]
        ELSE IF t > map[key].resetTime THEN [ ok |-> TRUE, map |-> set(fresh) ]
        ELSE [ ok |-> map[key].count < maxRequests,
               map |-> set([ map[key] EXCEPT !.count = map[key].count + 1 ]) ]

\* a variant of checkRateLimit that blocks one call later
checkRateLimit_late(map, key, maxRequests, windowMs, t) ==
    LET fresh == [ count |-> 1, resetTime |-> t + windowMs ]
        set(record) == [ k \in DOMAIN map \cup { key } |->
                           IF k = key THEN record ELSE map[k] ]
    IN  IF key \notin DOMAIN map THEN [ ok |-> TRUE, map |-> set(fresh) ]
        ELSE IF t > map[key].resetTime THEN [ ok |-> TRUE, map |-> set(fresh) ]
        ELSE IF map[key].count > maxRequests THEN [ ok |-> FALSE, map |-> map ]
        ELSE [ ok |-> TRUE,
               map |-> set([ map[key] EXCEPT !.count = map[key].count + 1 ]) ]

\* checkRateLimit(key, maxRequests, windowMs) at time t: what it returns and the
\* map it leaves
checkRateLimit(map, key, maxRequests, windowMs, t) ==
    LET fresh == [ count |-> 1, resetTime |-> t + windowMs ]
        set(record) == [ k \in DOMAIN map \cup { key } |->
                           IF k = key THEN record ELSE map[k] ]
    IN  IF key \notin DOMAIN map THEN [ ok |-> TRUE, map |-> set(fresh) ]
        ELSE IF t > map[key].resetTime THEN [ ok |-> TRUE, map |-> set(fresh) ]
        ELSE IF map[key].count >= maxRequests THEN [ ok |-> FALSE, map |-> map ]
        ELSE [ ok |-> TRUE,
               map |-> set([ map[key] EXCEPT !.count = map[key].count + 1 ]) ]

(***************************************************************************)
(* ConversationSidebar: the list it renders is its own state, refreshed by *)
(* an effect at once when the query is blank and through the debounced     *)
(* handleSearch otherwise.  handleSearch is rebuilt whenever the store     *)
(* hands out a new conversations array; a timer of an earlier handleSearch *)
(* is not cleared and fires with the conversations it closed over.         *)
(***************************************************************************)
IdOf(conv) == conv.id

ConvIds(conversations) == SeqMap(conversations, IdOf)

\* what the callback debounced by handleSearch passes to setFilteredConversations
handleSearch(conversations, query) ==
    IF Trim(query) = << >> THEN ConvIds(conversations)
    ELSE ConvIds(searchConversations(conversations, query))

\* debounce: a call clears the pending timer of the same handleSearch
Schedule(timers, isCurrent, result) ==
    IF isCurrent /\ timers # << >>
    THEN Append(SubSeq(timers, 1, Len(timers) - 1), result)
    ELSE Append(timers, result)

(***************************************************************************)
(* Texts of the replies sendMessage appends.                               *)
(***************************************************************************)
NoResponseText ==
    << "N", "o", " ", "r", "e", "s", "p", "o", "n", "s", "e", " ", "g", "e",
       "n", "e", "r", "a", "t", "e", "d", "." >>

ErrorText ==
    << "S", "o", "r", "r", "y", ",", " ", "I", " ", "e", "n", "c", "o", "u",
       "n", "t", "e", "r", "e", "d", " ", "a", "n", " ", "e", "r", "r", "o",
       "r", " ", "p", "r", "o", "c", "e", "s", "s", "i", "n", "g", " ", "y",
       "o", "u", "r", " ", "r", "e", "q", "u", "e", "s", "t", ".", " ", "P",
       "l", "e", "a", "s", "e", " ", "t", "r", "y", " ", "a", "g", "a", "i",
       "n", "." >>

SimulatedPrefix ==
    << "I", " ", "r", "e", "c", "e", "i", "v", "e", "d", " ", "y", "o", "u",
       "r", " ", "m", "e", "s", "s", "a", "g", "e", ":", " ", "\"" >>

SimulatedSuffix ==
    << "\"", ".", " ", "\n", "\n", "N", "o", "t", "e", ":", " ", "T", "h",
       "i", "s", " ", "i", "s", " ", "a", " ", "s", "i", "m", "u", "l", "a",
       "t", "e", "d", " ", "r", "e", "s", "p", "o", "n", "s", "e", ".", " ",
       "C", "o", "n", "f", "i", "g", "u", "r", "e", " ", "y", "o", "u", "r",
       " ", "O", "p", "e", "n", "A", "I", " ", "A", "P", "I", " ", "k", "e",
       "y", " ", "t", "o", " ", "g", "e", "t", " ", "r", "e", "a", "l", " ",
       "r", "e", "s", "p", "o", "n", "s", "e", "s", "." >>

SimulatedText(content) == SimulatedPrefix \o content \o SimulatedSuffix

(***************************************************************************)
(* ChatProvider: what its handlers dispatch.  The fields seq and toActive  *)
(* of a message and the field titleSets of a conversation are history: the *)
(* number of the ADD_MESSAGE that carried the message, whether that        *)
(* ADD_MESSAGE named the conversation that was active when it was          *)
(* dispatched, and how often the title was taken from a message.           *)
(***************************************************************************)
Hi == << "H", "i" >>
Ok == << "o", "k" >>

\* what the user types into the message box, and into the edit box of a message
Contents == { Hi, Ok }

Edits == { Ok }

\* what the completion service answers
ReplyText == << "y", "e", "s" >>

SessionA == << "s", "1" >>

\* how the completion request ends: a response with a choice, a response with an
\* empty list of choices, a response without the list, or a rejection
Outcomes ==
    [ kind : { "completion" }, session_id : { Null, SessionA } ]
        \cup [ kind : { "empty", "malformed", "failed" }, session_id : { Null } ]

NewMessage(id, content, role, t, seq, toActive) ==
    [ id |-> id, content |-> content, role |-> role, timestamp |-> t,
      seq |-> seq, toActive |-> toActive ]

AddMessage(conversationId, message) ==
    [ type |-> "ADD_MESSAGE",
      payload |-> [ conversationId |-> conversationId, message |-> message ] ]

SetLoading(flag) == [ type |-> "SET_LOADING", payload |-> flag ]

\* addToast stands among the dispatched actions; the reducer does not see it
AddToast(type) == [ type |-> "TOAST", payload |-> type ]

HasConversation(s, id) ==
    \E i \in 1..Len(s.conversations) : s.conversations[i].id = id

\* state.conversations.find(c => c.id === id), for an id that is there
FindConversation(s, id) ==
    s.conversations[CHOOSE i \in 1..Len(s.conversations) :
                        /\ s.conversations[i].id = id
                        /\ \A j \in 1..(i - 1) : s.conversations[j].id # id]

createNewConversation(id, t) ==
    << [ type |-> "ADD_CONVERSATION",
         payload |-> [ id |-> id, title |-> NewChat, messages |-> << >>,
                       createdAt |-> t, updatedAt |-> t, titleSets |-> 0 ] ] >>

\* a variant of the catch block that appends no message
sendMessageCatch_silent(conversationId, content, id, t, seq, active, dev) == << >>

\* a variant of the catch block that raises no toast
sendMessageCatch_quiet(conversationId, content, id, t, seq, active, dev) ==
    << AddMessage(conversationId,
                  NewMessage(id, IF dev THEN SimulatedText(content) ELSE ErrorText,
                             "assistant", t, seq, conversationId = active)) >>

\* the catch block of sendMessage: a simulated reply in development mode, a toast
\* and an error message otherwise
sendMessageCatch(conversationId, content, id, t, seq, active, dev) ==
    IF dev
    THEN << AddMessage(conversationId,
                       NewMessage(id, SimulatedText(content), "assistant", t, seq,
                                  conversationId = active)) >>
    ELSE << AddToast("error"),
            AddMessage(conversationId,
                       NewMessage(id, ErrorText, "assistant", t, seq,
                                  conversationId = active)) >>

\* a variant of sendMessage that goes on with the conversation it has just created
sendMessageStart_sendsOn(s, content, id, id2, t, seq, dev) ==
    IF s.currentConversationId = Null
    THEN createNewConversation(id, t)
             \o << AddMessage(id, NewMessage(id2, content, "user", t, seq, TRUE)),
                   SetLoading(TRUE) >>
    ELSE << AddMessage(s.currentConversationId,
                       NewMessage(id, content, "user", t, seq, TRUE)),
            SetLoading(TRUE) >>
         \o (IF HasConversation(s, s.currentConversationId) THEN << >>
             ELSE sendMessageCatch(s.currentConversationId, content, id2, t, seq + 1,
                                   s.currentConversationId, dev)
                  \o << SetLoading(FALSE) >>)

\* a variant of sendMessage that does not raise the loading flag
sendMessageStart_noFlag(s, content, id, id2, t, seq, dev) ==
    IF s.currentConversationId = Null THEN createNewConversation(id, t)
    ELSE << AddMessage(s.currentConversationId,
                       NewMessage(id, content, "user", t, seq, TRUE)) >>
         \o (IF HasConversation(s, s.currentConversationId) THEN << >>
             ELSE sendMessageCatch(s.currentConversationId, content, id2, t, seq + 1,
                                   s.currentConversationId, dev)
                  \o << SetLoading(FALSE) >>)

\* sendMessage up to its await, called with the rendered state s
sendMessageStart(s, content, id, id2, t, seq, dev) ==
    IF s.currentConversationId = Null THEN createNewConversation(id, t)
    ELSE << AddMessage(s.currentConversationId,
                       NewMessage(id, content, "user", t, seq, TRUE)),
            SetLoading(TRUE) >>
         \o (IF HasConversation(s, s.currentConversationId) THEN << >>
             ELSE sendMessageCatch(s.currentConversationId, content, id2, t, seq + 1,
                                   s.currentConversationId, dev)
                  \o << SetLoading(FALSE) >>)

\* a variant of the resumed sendMessage that reads the conversation shown by now
sendMessageResume_toShown(req, outcome, id, t, seq, active, dev) ==
    LET session ==
            IF outcome.session_id # Null /\ req.sessionId = Null
            THEN << [ type |-> "SET_SESSION_ID", payload |-> outcome.session_id ] >>
            ELSE << >>
        reply(text) ==
            << AddMessage(active, NewMessage(id, text, "assistant", t, seq, TRUE)) >>
        caught == sendMessageCatch(active, req.content, id, t, seq, active, dev)
    IN  (CASE outcome.kind = "completion" -> session \o reply(ReplyText)
           [] outcome.kind = "empty" -> session \o reply(NoResponseText)
           [] outcome.kind = "malformed" -> session \o caught
           [] OTHER -> caught)
        \o << SetLoading(FALSE) >>

\* a variant of the resumed sendMessage that clears the loading flag at the end of
\* its try block, not in a finally block
sendMessageResume_noFinally(req, outcome, id, t, seq, active, dev) ==
    LET session ==
            IF outcome.session_id # Null /\ req.sessionId = Null
            THEN << [ type |-> "SET_SESSION_ID", payload |-> outcome.session_id ] >>
            ELSE << >>
        reply(text) ==
            << AddMessage(req.conversationId,
                          NewMessage(id, text, "assistant", t, seq,
                                     req.conversationId = active)) >>
        caught == sendMessageCatch(req.conversationId, req.content, id, t, seq, active, dev)
    IN  CASE outcome.kind = "completion" -> session \o reply(ReplyText) \o << SetLoading(FALSE) >>
          [] outcome.kind = "empty" -> session \o reply(NoResponseText) \o << SetLoading(FALSE) >>
          [] outcome.kind = "malformed" -> session \o caught
          [] OTHER -> caught

\* sendMessage from its await on; req holds what the call closed over, and active
\* is the conversation shown by now, which the call does not read
sendMessageResume(req, outcome, id, t, seq, active, dev) ==
    LET session ==
            IF outcome.session_id # Null /\ req.sessionId = Null
            THEN << [ type |-> "SET_SESSION_ID", payload |-> outcome.session_id ] >>
            ELSE << >>
        reply(text) ==
            << AddMessage(req.conversationId,
                          NewMessage(id, text, "assistant", t, seq,
                                     req.conversationId = active)) >>
        caught == sendMessageCatch(req.conversationId, req.content, id, t, seq, active, dev)
    IN  (CASE outcome.kind = "completion" -> session \o reply(ReplyText)
           [] outcome.kind = "empty" -> session \o reply(NoResponseText)
           [] outcome.kind = "malformed" -> session \o caught
           [] OTHER -> caught)
        \o << SetLoading(FALSE) >>

\* deleteConversation, called with the rendered state s
deleteConversation(s, conversationId, id, t) ==
    << [ type |-> "DELETE_CONVERSATION", payload |-> conversationId ] >>
        \o (IF Len(s.conversations) <= 1 THEN createNewConversation(id, t) ELSE << >>)

editMessage(s, messageId, content) ==
    IF s.currentConversationId = Null THEN << >>
    ELSE << [ type |-> "EDIT_MESSAGE",
              payload |-> [ conversationId |-> s.currentConversationId,
                            messageId |-> messageId, content |-> content ] ] >>

deleteMessage(s, messageId) ==
    IF s.currentConversationId = Null THEN << >>
    ELSE << [ type |-> "DELETE_MESSAGE",
              payload |-> [ conversationId |-> s.currentConversationId,
                            messageId |-> messageId ] ] >>

\* the most recent conversation, as the reduce of the mount effect finds it
RECURSIVE MostRecent(_, _)
MostRecent(prev, rest) ==
    IF rest = << >> THEN prev
    ELSE MostRecent(IF prev.updatedAt > Head(rest).updatedAt THEN prev ELSE Head(rest),
                    Tail(rest))

\* a variant of the mount effect that always shows the most recent conversation
mountEffect_mostRecent(loadedConversations, savedCurrentId) ==
    IF Len(loadedConversations) > 0
    THEN << [ type |-> "SET_CONVERSATIONS", payload |-> loadedConversations ],
            [ type |-> "SET_CURRENT_CONVERSATION",
              payload |-> MostRecent(Head(loadedConversations),
                                     Tail(loadedConversations)).id ] >>
    ELSE << >>

\* the mount effect of ChatProvider
mountEffect(loadedConversations, savedCurrentId) ==
    IF Len(loadedConversations) > 0
    THEN << [ type |-> "SET_CONVERSATIONS", payload |-> loadedConversations ],
            [ type |-> "SET_CURRENT_CONVERSATION",
              payload |->
                IF /\ savedCurrentId # Null
                   /\ \E i \in 1..Len(loadedConversations) :
                          loadedConversations[i].id = savedCurrentId
                THEN savedCurrentId
                ELSE MostRecent(Head(loadedConversations),
                                Tail(loadedConversations)).id ] >>
    ELSE << >>

IsToast(action) == action.type = "TOAST"

\* the types of the toasts a handler has raised, in order
Toasts(actions) ==
    LET raised == SelectSeq(actions, IsToast)
    IN  [ i \in 1..Len(raised) |-> raised[i].payload ]

CountAddMessage(actions) ==
    Cardinality({ i \in 1..Len(actions) : actions[i].type = "ADD_MESSAGE" })

(***************************************************************************)
(* One handler: the reducer runs over what the handler dispatched, the     *)
(* provider and the sidebar render once, and their effects run.  `stored`  *)
(* is the conversations item the handler itself left in localStorage;      *)
(* query, timers and isCurrent are the sidebar's as the handler left them. *)
(***************************************************************************)
Render(actions, stored, query, timers, isCurrent) ==
    LET changed == \E i \in 1..Len(actions) : ChangesConversations(actions[i])
        refresh == changed \/ query # searchQuery
        blank == Trim(query) = << >>
        current == isCurrent /\ ~changed
    IN  /\ state' = Dispatch(state, actions, now)
        \* effect [state.conversations]: saveAll
        /\ lsConversations' =
              IF changed /\ Len(state'.conversations) > 0
              THEN conversationStorage_save(state'.conversations)
              ELSE stored
        \* effect [state.currentConversationId]: save
        /\ lsCurrent' =
              IF /\ state'.currentConversationId # state.currentConversationId
                 /\ state'.currentConversationId # Null
              THEN currentConversationStorage_save(state'.currentConversationId)
              ELSE lsCurrent
        \* the sidebar's effect [state.conversations, handleSearch, searchQuery]
        /\ searchQuery' = query
        /\ filteredConversations' =
              IF refresh /\ blank THEN ConvIds(state'.conversations)
              ELSE filteredConversations
        /\ searchTimers' =
              IF refresh /\ ~blank
              THEN Schedule(timers, current, handleSearch(state'.conversations, query))
              ELSE timers
        /\ timerIsCurrent' = IF refresh /\ ~blank THEN TRUE ELSE current
        /\ Len(searchTimers') <= MaxTimers
        /\ nextSeq' = nextSeq + CountAddMessage(actions)
        /\ toasts' = Toasts(actions)

\* a handler of the provider or of ChatArea: the sidebar's own state is as it was
Handle(actions, stored) ==
    Render(actions, stored, searchQuery, searchTimers, timerIsCurrent)

\* the build's environment is fixed, and not known before a catch block reads it:
\* isDev holds the value that was read, if any
Unread == { }

ReadIsDev == IF isDev = Unread THEN BOOLEAN ELSE isDev

\* n generateId calls of one handler the user starts
Draw(n) ==
    /\ randomDraws + n <= MaxDraws
    /\ randomDraws' = randomDraws + n

(***************************************************************************)
(* The actions.                                                            *)
(***************************************************************************)
\* the clock advances
Tick ==
    /\ now < MaxTime
    /\ now' = now + 1
    /\ randomDraws' = 0
    /\ toasts' = << >>
    /\ UNCHANGED << state, pending, lsConversations, lsCurrent, searchQuery,
                    filteredConversations, searchTimers, timerIsCurrent, loadResult,
                    isDev, nextSeq >>
    /\ UNCHANGED auxVars

\* the New Conversation button, or its keyboard shortcut
NewConversation ==
    /\ Len(state.conversations) < MaxConvs
    /\ Draw(1)
    /\ Handle(createNewConversation(generateId(now, randomDraws), now), lsConversations)
    /\ UNCHANGED << now, pending, loadResult, isDev >>
    /\ UNCHANGED auxVars

\* a click on an entry of the list the sidebar renders
SelectConversation ==
    /\ \E i \in 1..Len(filteredConversations) :
          Handle(<< [ type |-> "SET_CURRENT_CONVERSATION",
                      payload |-> filteredConversations[i] ] >>, lsConversations)
    /\ UNCHANGED << now, pending, loadResult, isDev, randomDraws >>
    /\ UNCHANGED auxVars

\* a click on the trash button of an entry of the list the sidebar renders
DeleteConversation ==
    /\ IF Len(state.conversations) <= 1 THEN Draw(1) ELSE UNCHANGED randomDraws
    /\ \E i \in 1..Len(filteredConversations) :
          Handle(deleteConversation(state, filteredConversations[i],
                                    generateId(now, randomDraws), now),
                 conversationStorage_delete(lsConversations, filteredConversations[i]))
    /\ UNCHANGED << now, pending, loadResult, isDev >>
    /\ UNCHANGED auxVars

\* the key, the limit and the window handleSubmit passes to checkRateLimit
SendKey == "send-message-global"

SendLimit == 20

SendWindow == 60000

\* handleSubmit of ChatArea with the textarea holding message, up to the await of
\* sendMessage.  With a blank textarea or while a reply is awaited it returns at
\* once; an invalid message and a call the limiter blocks raise a toast.
handleSubmit(message, dev) ==
    LET trimmed == Trim(message)
        limit == checkRateLimit(rateLimitMap, SendKey, SendLimit, SendWindow, now)
        content == sanitizeInput(trimmed)
        actions == sendMessageStart(state, content,
                                    generateId(now, randomDraws),
                                    generateId(now, randomDraws + 1),
                                    now, nextSeq, dev)
        suspended == /\ state.currentConversationId # Null
                     /\ HasConversation(state, state.currentConversationId)
    IN  /\ trimmed # << >>
        /\ ~state.isLoading
        /\ IF ~validateMessageContent(trimmed)
           THEN /\ Handle(<< AddToast("error") >>, lsConversations)
                /\ UNCHANGED << pending, isDev, randomDraws, rateLimitMap >>
           ELSE IF ~limit.ok
           THEN /\ Handle(<< AddToast("warning") >>, lsConversations)
                /\ rateLimitMap' = limit.map
                /\ UNCHANGED << pending, isDev, randomDraws >>
           ELSE /\ rateLimitMap' = limit.map
                /\ isDev' = IF state.currentConversationId # Null /\ ~suspended
                            THEN { dev } ELSE isDev
                /\ IF state.currentConversationId = Null
                   THEN Len(state.conversations) < MaxConvs /\ Draw(1)
                   ELSE IF suspended
                   THEN /\ Len(FindConversation(state,
                                                state.currentConversationId).messages)
                              + 2 <= MaxMsgs
                        /\ Draw(2)
                   ELSE Draw(2)
                /\ Handle(actions, lsConversations)
                /\ pending' =
                      IF suspended
                      THEN Append(pending,
                                  [ conversationId |-> state.currentConversationId,
                                    sessionId |-> state.sessionId,
                                    content |-> content,
                                    \* history: the conversation shown when the call
                                    \* was made
                                    activeAtCall |-> state.currentConversationId ])
                      ELSE pending

\* the parts of the model a handler of ChatArea leaves alone
AreaFrame ==
    UNCHANGED << rateLog, lsSettings, lsUserData, saveResult, stream, evaluated >>

\* the user submits a message
HandleSubmit ==
    /\ \E message \in Contents, dev \in ReadIsDev : handleSubmit(message, dev)
    /\ UNCHANGED << now, loadResult >>
    /\ AreaFrame

\* the completion request of a suspended sendMessage ends, and the call runs on
resolve(outcome, dev) ==
    /\ pending # << >>
    /\ Handle(sendMessageResume(Head(pending), outcome,
                                generateId(now, randomDraws), now, nextSeq,
                                state.currentConversationId, dev),
              lsConversations)
    /\ isDev' = IF outcome.kind \in { "malformed", "failed" } THEN { dev } ELSE isDev
    /\ pending' = Tail(pending)
    /\ randomDraws' = randomDraws + 1
    /\ UNCHANGED << now, loadResult >>
    /\ UNCHANGED auxVars

Resolve == \E outcome \in Outcomes, dev \in ReadIsDev : resolve(outcome, dev)

\* the messages ChatArea renders: those of getCurrentConversation()
ShownMessages ==
    IF HasConversation(state, state.currentConversationId)
    THEN FindConversation(state, state.currentConversationId).messages
    ELSE << >>

\* handleEditMessage of ChatArea: an invalid content raises a toast
handleEditMessage(messageId, content) ==
    IF ~validateMessageContent(content)
    THEN Handle(<< AddToast("error") >>, lsConversations)
    ELSE Handle(editMessage(state, messageId, sanitizeInput(content)), lsConversations)

\* the user edits a message that is shown
EditMessage ==
    /\ \E i \in 1..Len(ShownMessages), content \in Edits :
          handleEditMessage(ShownMessages[i].id, content)
    /\ UNCHANGED << now, pending, loadResult, isDev, randomDraws >>
    /\ UNCHANGED auxVars

\* handleDeleteMessage of ChatArea
DeleteMessage ==
    /\ \E i \in 1..Len(ShownMessages) :
          Handle(deleteMessage(state, ShownMessages[i].id), lsConversations)
    /\ UNCHANGED << now, pending, loadResult, isDev, randomDraws >>
    /\ UNCHANGED auxVars

Queries == { << >>, << "h" >> }

\* handleSearchChange of the sidebar: the user edits the search box
SearchChange ==
    /\ \E value \in Queries :
          /\ value # searchQuery
          /\ Render(<< >>, lsConversations, value,
                    Schedule(searchTimers, timerIsCurrent,
                             handleSearch(state.conversations, value)),
                    TRUE)
    /\ UNCHANGED << now, pending, loadResult, isDev, randomDraws >>
    /\ UNCHANGED auxVars

\* the oldest debounce timer fires
TimerFires ==
    /\ searchTimers # << >>
    /\ filteredConversations' = Head(searchTimers)
    /\ searchTimers' = Tail(searchTimers)
    /\ timerIsCurrent' = (timerIsCurrent /\ Len(searchTimers) > 1)
    /\ toasts' = << >>
    /\ UNCHANGED << state, now, pending, lsConversations, lsCurrent, searchQuery,
                    loadResult, isDev, randomDraws, nextSeq >>
    /\ UNCHANGED auxVars

\* the provider and the sidebar mount: the mount effect, then the save effects
Mount ==
    /\ LET loaded == conversationStorage_load(lsConversations)
           actions == IF loaded.threw THEN << >>
                      ELSE mountEffect(loaded.value,
                                       currentConversationStorage_load(lsCurrent))
       IN  state' = Dispatch(initialState, actions, now)
    /\ lsConversations' =
          IF Len(state'.conversations) > 0
          THEN conversationStorage_save(state'.conversations)
          ELSE lsConversations
    /\ lsCurrent' =
          IF state'.currentConversationId # Null
          THEN currentConversationStorage_save(state'.currentConversationId)
          ELSE lsCurrent
    /\ filteredConversations' = ConvIds(state'.conversations)
    /\ searchQuery' = << >>
    /\ searchTimers' = << >>
    /\ timerIsCurrent' = FALSE
    /\ pending' = << >>
    /\ loadResult' = [ called |-> TRUE,
                       threw |-> conversationStorage_load(lsConversations).threw ]
    /\ toasts' = << >>
    /\ UNCHANGED << now, isDev, randomDraws, nextSeq >>
    /\ UNCHANGED auxVars

\* the page is loaded again
Reload == state # initialState /\ Mount

\* nothing has been called yet
InitRest ==
    /\ rateLog = << >>
    /\ lsSettings = NoItem
    /\ lsUserData = NoItem
    /\ saveResult = [ called |-> FALSE ]
    /\ stream = [ phase |-> "idle" ]
    /\ evaluated = [ fn |-> "none" ]

InitAux ==
    /\ rateLimitMap = << >>
    /\ InitRest

\* the provider and the sidebar have mounted over an empty localStorage
InitStore ==
    /\ state = initialState
    /\ now = 0
    /\ pending = << >>
    /\ lsConversations = NoItem
    /\ lsCurrent = NoItem
    /\ searchQuery = << >>
    /\ filteredConversations = << >>
    /\ searchTimers = << >>
    /\ timerIsCurrent = FALSE
    /\ loadResult = [ called |-> FALSE ]
    /\ isDev = Unread
    /\ randomDraws = 0
    /\ nextSeq = 0
    /\ toasts = << >>

Init ==
    /\ InitStore
    /\ InitAux

Next ==
    \/ Tick
    \/ NewConversation
    \/ SelectConversation
    \/ DeleteConversation
    \/ HandleSubmit
    \/ Resolve
    \/ EditMessage
    \/ DeleteMessage
    \/ SearchChange
    \/ TimerFires
    \/ Reload

Spec == Init /\ [][Next]_vars

\* the store without the search box of the sidebar
NextStore ==
    \/ Tick
    \/ NewConversation
    \/ SelectConversation
    \/ DeleteConversation
    \/ HandleSubmit
    \/ Resolve
    \/ EditMessage
    \/ DeleteMessage
    \/ Reload

StoreSpec == Init /\ [][NextStore]_vars

\* the sidebar and the list of conversations, without messages
NextSidebar ==
    \/ Tick
    \/ NewConversation
    \/ SelectConversation
    \/ DeleteConversation
    \/ SearchChange
    \/ TimerFires
    \/ Reload

SidebarSpec == Init /\ [][NextSidebar]_vars

\* what the key 'ai-chat-conversations' may hold when the page is loaded: nothing,
\* text that is no JSON, or a document, which need not be one the page wrote
SampleMessage ==
    MessageToJson(NewMessage(generateId(0, 1), Hi, "user", 0, 0, TRUE))

SampleConversation(messages) ==
    JObj([ id |-> JStr(generateId(0, 0)), title |-> JStr(NewChat), messages |-> messages,
           createdAt |-> JStr(toISOString(0)), updatedAt |-> JStr(toISOString(0)),
           titleSets |-> JNum(0) ])

StoredEntries ==
    { JNull, JNum(1), JStr(Hi),
      JObj([ id |-> JStr(generateId(0, 0)) ]),
      SampleConversation(JStr(Hi)),
      SampleConversation(JArr(<< >>)),
      SampleConversation(JArr(<< JNull >>)),
      SampleConversation(JArr(<< SampleMessage >>)) }

StoredTexts ==
    { NoItem, EmptyText, BadText }
        \cup { JsonText(v) : v \in { JNull, JNum(0), JStr(Hi), JBool(TRUE),
                                     JObj([ id |-> JStr(generateId(0, 0)) ]) } }
        \cup { JsonText(JArr(items)) :
                 items \in UNION { [ 1..n -> StoredEntries ] : n \in 0..MaxStored } }

InitLoad ==
    /\ state = initialState
    /\ now = 0
    /\ pending = << >>
    /\ lsConversations \in StoredTexts
    /\ lsCurrent = NoItem
    /\ searchQuery = << >>
    /\ filteredConversations = << >>
    /\ searchTimers = << >>
    /\ timerIsCurrent = FALSE
    /\ loadResult = [ called |-> FALSE ]
    /\ isDev = Unread
    /\ randomDraws = 0
    /\ nextSeq = 0
    /\ toasts = << >>
    /\ InitAux

\* the mount effect of ChatProvider calls conversationStorage.load()
LoadStored ==
    /\ ~loadResult.called
    /\ loadResult' = [ called |-> TRUE,
                       threw |-> conversationStorage_load(lsConversations).threw ]
    /\ UNCHANGED << state, now, pending, lsConversations, lsCurrent, searchQuery,
                    filteredConversations, searchTimers, timerIsCurrent, isDev,
                    randomDraws, nextSeq, toasts >>
    /\ UNCHANGED auxVars

LoadSpec == InitLoad /\ [][LoadStored]_vars

(***************************************************************************)
(* The save functions of lib/storage, called with what the application may *)
(* hand them, while localStorage may have run out of room.                 *)
(***************************************************************************)
FileA == << "f", "1" >>

\* a content with characters that JSON text escapes
Quoted == << "\"", "\\", "\n", "<" >>

SavedMessages ==
    << NewMessage(generateId(0, 1), Quoted, "user", 0, 0, TRUE)
            @@ [ attachments |-> << FileA >> ],
       NewMessage(generateId(1, 0), Hi, "assistant", 1, 1, TRUE) >>

SavedConversations ==
    { [ id |-> generateId(0, 0), title |-> Hi, messages |-> SavedMessages,
        createdAt |-> 0, updatedAt |-> 1, titleSets |-> 1 ],
      [ id |-> generateId(1, 1), title |-> NewChat, messages |-> << >>,
        createdAt |-> 1, updatedAt |-> 1, titleSets |-> 0 ] }

\* the lists conversationStorage.save is called with
SavedLists == UNION { [ 1..n -> SavedConversations ] : n \in 0..MaxStored }

\* the ids currentConversationStorage.save is called with
SavedIds == { Null, generateId(0, 0), generateId(1, 1) }

\* Partial<UserSettings>
SavedSettings ==
    { JObj(<< >>), JObj([ theme |-> JStr("dark") ]), JObj([ fontSize |-> JStr("large") ]),
      JObj([ theme |-> JStr("light"), fontSize |-> JStr("small") ]) }

SavedUserData ==
    { JObj([ name |-> JStr(Hi) ]), JObj([ email |-> JStr(Ok), avatar |-> JStr(Hi) ]) }

SaveDone(fn, input, full, result) ==
    saveResult' = [ called |-> TRUE, fn |-> fn, input |-> input, full |-> full,
                    threw |-> result.threw ]

SaveFrame ==
    UNCHANGED << state, now, pending, searchQuery, filteredConversations, searchTimers,
                 timerIsCurrent, loadResult, isDev, randomDraws, nextSeq, toasts,
                 rateLimitMap, rateLog, stream, evaluated >>

SaveConversations ==
    /\ \E conversations \in SavedLists, full \in BOOLEAN :
          LET result == conversationStorage_save_call(lsConversations, conversations, full)
          IN  /\ lsConversations' = result.item
              /\ SaveDone("conversationStorage.save", conversations, full, result)
    /\ UNCHANGED << lsCurrent, lsSettings, lsUserData >>
    /\ SaveFrame

SaveCurrent ==
    /\ \E conversationId \in SavedIds, full \in BOOLEAN :
          LET result == currentConversationStorage_save_call(lsCurrent, conversationId, full)
          IN  /\ lsCurrent' = result.item
              /\ SaveDone("currentConversationStorage.save", conversationId, full, result)
    /\ UNCHANGED << lsConversations, lsSettings, lsUserData >>
    /\ SaveFrame

SaveSettings ==
    /\ \E settings \in SavedSettings, full \in BOOLEAN :
          LET result == settingsStorage_save_call(lsSettings, settings, full)
          IN  /\ lsSettings' = result.item
              /\ SaveDone("settingsStorage.save", settings, full, result)
    /\ UNCHANGED << lsConversations, lsCurrent, lsUserData >>
    /\ SaveFrame

SaveUserData ==
    /\ \E userData \in SavedUserData, full \in BOOLEAN :
          LET result == userDataStorage_save_call(lsUserData, userData, full)
          IN  /\ lsUserData' = result.item
              /\ SaveDone("userDataStorage.save", userData, full, result)
    /\ UNCHANGED << lsConversations, lsCurrent, lsSettings >>
    /\ SaveFrame

NextSave ==
    \/ SaveConversations
    \/ SaveCurrent
    \/ SaveSettings
    \/ SaveUserData

SaveSpec == Init /\ [][NextSave]_vars

(***************************************************************************)
(* checkRateLimit under a caller that passes the same limit and window on  *)
(* every call, for two keys, while time passes.                            *)
(***************************************************************************)
RateKeys == { "a", "b" }

\* maxRequests and windowMs of the caller
RateLimits == { 1, 2 }

RateWindows == { 1, 2 }

RateFrame ==
    UNCHANGED << state, pending, lsConversations, lsCurrent, searchQuery,
                 filteredConversations, searchTimers, timerIsCurrent, loadResult,
                 isDev, randomDraws, nextSeq, toasts, lsSettings, lsUserData,
                 saveResult, stream, evaluated >>

\* one call of checkRateLimit
CheckRateLimit ==
    /\ Len(rateLog) < MaxCalls
    /\ \E key \in RateKeys, maxRequests \in RateLimits, windowMs \in RateWindows :
          /\ rateLog # << >> =>
                /\ maxRequests = rateLog[1].maxRequests
                /\ windowMs = rateLog[1].windowMs
          /\ LET result == checkRateLimit(rateLimitMap, key, maxRequests, windowMs, now)
             IN  /\ rateLimitMap' = result.map
                 /\ rateLog' = Append(rateLog,
                                      [ key |-> key, maxRequests |-> maxRequests,
                                        windowMs |-> windowMs, t |-> now,
                                        ok |-> result.ok ])
    /\ UNCHANGED now
    /\ RateFrame

\* a millisecond passes
Elapse ==
    /\ now < RateHorizon
    /\ now' = now + 1
    /\ UNCHANGED << rateLimitMap, rateLog >>
    /\ RateFrame

NextRate ==
    \/ CheckRateLimit
    \/ Elapse

RateSpec == Init /\ [][NextRate]_vars

(***************************************************************************)
(* ChatArea: what the user may type into the message box and into the edit *)
(* box of a message, and a limiter that may have counted earlier sends:    *)
(* rateLimitMap belongs to the module and outlives the provider, which     *)
(* mounts afresh, over an emptied localStorage, after a logout.            *)
(***************************************************************************)
Repeat(ch, n) == [ i \in 1..n |-> ch ]

Spaces == << " ", " " >>

\* one character more than the schema admits
TooLong == Repeat("a", MaxMessageLength + 1)

\* as long as the schema admits, with a character that sanitizeInput escapes
Angled == << "<" >> \o Repeat("a", MaxMessageLength - 1)

SubmitInputs == { Hi, Spaces }

EditInputs == { Ok, Spaces }

\* texts at the limit of the schema
LongInputs == { Hi, Spaces, TooLong, Angled }

\* the record of the limiter after earlier sends whose window ends at resetTime
SentBefore ==
    { << >> } \cup { [ k \in { SendKey } |-> [ count |-> n, resetTime |-> t ] ] :
                       n \in { SendLimit - 1, SendLimit }, t \in 0..MaxTime }

InitSubmit ==
    /\ InitStore
    /\ rateLimitMap \in SentBefore
    /\ InitRest

\* the user submits whatever the message box holds
SubmitAny ==
    /\ \E message \in SubmitInputs, dev \in ReadIsDev : handleSubmit(message, dev)
    /\ UNCHANGED << now, loadResult >>
    /\ AreaFrame

\* the user saves whatever the edit box of a shown message holds
EditAny ==
    /\ \E i \in 1..Len(ShownMessages), content \in EditInputs :
          handleEditMessage(ShownMessages[i].id, content)
    /\ UNCHANGED << now, pending, loadResult, isDev, randomDraws >>
    /\ UNCHANGED auxVars

NextSubmit ==
    \/ Tick
    \/ SubmitAny
    \/ Resolve
    \/ EditAny
    \/ DeleteMessage

SubmitSpec == InitSubmit /\ [][NextSubmit]_vars

\* the user submits a text at the limit of the schema
SubmitLong ==
    /\ \E message \in LongInputs, dev \in ReadIsDev : handleSubmit(message, dev)
    /\ UNCHANGED << now, loadResult >>
    /\ AreaFrame

\* the user saves a text at the limit of the schema as the content of a message
EditLong ==
    /\ \E i \in 1..Len(ShownMessages), content \in LongInputs :
          handleEditMessage(ShownMessages[i].id, content)
    /\ UNCHANGED << now, pending, loadResult, isDev, randomDraws >>
    /\ UNCHANGED auxVars

NextInput ==
    \/ Tick
    \/ SubmitLong
    \/ Resolve
    \/ EditLong

InputSpec == Init /\ [][NextInput]_vars

(***************************************************************************)
(* lib/utils-enhanced: generateConversationTitle on its own.               *)
(***************************************************************************)
MaxPieces == 4

\* what a first message is put together from: words of several lengths, a space,
\* a line feed and two sentence terminators
Pieces ==
    { Repeat("a", 1), Repeat("a", 20), Repeat("a", TitleLimit),
      Repeat("a", TitleLimit + 1), << " " >>, << "\n" >>, << "." >>, << "?" >> }

RECURSIVE Texts(_)
Texts(n) ==
    IF n = 0 THEN { << >> }
    ELSE Texts(n - 1) \cup { text \o piece : text \in Texts(n - 1), piece \in Pieces }

EvalFrame ==
    UNCHANGED << state, now, pending, lsConversations, lsCurrent, searchQuery,
                 filteredConversations, searchTimers, timerIsCurrent, loadResult,
                 isDev, randomDraws, nextSeq, toasts, rateLimitMap, rateLog,
                 lsSettings, lsUserData, saveResult, stream >>

\* generateConversationTitle is called with a first message
GenerateTitle ==
    /\ evaluated.fn = "none"
    /\ \E firstMessage \in Texts(MaxPieces) :
          evaluated' = [ fn |-> "generateConversationTitle", input |-> firstMessage,
                         output |-> generateConversationTitle(firstMessage) ]
    /\ EvalFrame

TitleSpec == Init /\ [][GenerateTitle]_vars

(***************************************************************************)
(* The page opened on what an earlier visit stored.                        *)
(***************************************************************************)
\* the conversations an earlier visit may have stored
StoredConversations ==
    [ id : { generateId(0, 0), generateId(0, 1) }, title : { NewChat },
      messages : { << >>, << NewMessage(generateId(0, 2), Hi, "user", 0, 0, TRUE) >> },
      createdAt : { 0 }, updatedAt : { 0, 1 }, titleSets : { 0 } ]

\* the lists it may have stored: not empty, ids unique
StoredLists ==
    { << c >> : c \in StoredConversations }
        \cup { pair \in { << c, d >> : c \in StoredConversations,
                                        d \in StoredConversations } :
                   pair[1].id # pair[2].id }

\* the active id it may have stored: none, a listed one, or one deleted since
StoredIds == { Null, generateId(0, 0), generateId(0, 1), generateId(0, 3) }

InitStored ==
    /\ state = initialState
    /\ now = 0
    /\ pending = << >>
    /\ \E list \in StoredLists : lsConversations = conversationStorage_save(list)
    /\ \E id \in StoredIds : lsCurrent = currentConversationStorage_save(id)
    /\ searchQuery = << >>
    /\ filteredConversations = << >>
    /\ searchTimers = << >>
    /\ timerIsCurrent = FALSE
    /\ loadResult = [ called |-> FALSE ]
    /\ isDev = Unread
    /\ randomDraws = 0
    /\ nextSeq = 1
    /\ toasts = << >>
    /\ InitAux

NextMount ==
    \/ Tick
    \/ Mount
    \/ SelectConversation

MountSpec == InitStored /\ [][NextMount]_vars

(***************************************************************************)
(* deleteConversation called twice before the provider renders again.      *)
(***************************************************************************)
\* one handler calls deleteConversation twice: both calls close over the state of
\* the same render
DeleteTwice ==
    /\ IF Len(state.conversations) <= 1 THEN Draw(2) ELSE UNCHANGED randomDraws
    /\ \E i, j \in 1..Len(state.conversations) :
          LET first == state.conversations[i].id
              second == state.conversations[j].id
          IN  Handle(deleteConversation(state, first,
                                        generateId(now, randomDraws), now)
                         \o deleteConversation(state, second,
                                               generateId(now, randomDraws + 1), now),
                     conversationStorage_delete(
                         conversationStorage_delete(lsConversations, first), second))
    /\ UNCHANGED << now, pending, loadResult, isDev >>
    /\ UNCHANGED auxVars

NextBatch ==
    \/ Tick
    \/ NewConversation
    \/ SelectConversation
    \/ DeleteConversation
    \/ DeleteTwice

BatchSpec == Init /\ [][NextBatch]_vars

(***************************************************************************)
(* generateId when Math.random repeats.                                    *)
(***************************************************************************)
MaxSeq == 2

\* Math.random yields again the values it has yielded within this millisecond
Redraw ==
    /\ randomDraws > 0
    /\ nextSeq <= MaxSeq
    /\ randomDraws' = 0
    /\ UNCHANGED << state, now, pending, lsConversations, lsCurrent, searchQuery,
                    filteredConversations, searchTimers, timerIsCurrent, loadResult,
                    isDev, nextSeq, toasts >>
    /\ UNCHANGED auxVars

NextId ==
    \/ NewConversation
    \/ SubmitAny
    \/ Resolve
    \/ DeleteMessage
    \/ Reload
    \/ Redraw

IdSpec == Init /\ [][NextId]_vars

(***************************************************************************)
(* services/openai: createStreamingChatCompletion.                         *)
(***************************************************************************)
MaxDeltas == 2

DeltaContents == { "x", "y" }

\* the delta contents the service sends in one run
RECURSIVE DeltaSeqs(_)
DeltaSeqs(n) ==
    IF n = 0 THEN { << >> }
    ELSE DeltaSeqs(n - 1)
             \cup { Append(d, c) : d \in { e \in DeltaSeqs(n - 1) : Len(e) = n - 1 },
                                   c \in DeltaContents }

DataPrefix == << "d", "a", "t", "a", ":", " " >>

DoneText == << "[", "D", "O", "N", "E", "]" >>

\* the JSON text of a chunk object whose choices[0].delta.content is c; the braces
\* stand for the fixed frame of the object around the content
DeltaJson(c) == << "{", c, "}" >>

\* JSON.parse(data) followed by parsed.choices?.[0]?.delta?.content
JSON_parse(data) ==
    IF Len(data) = 3 /\ data[1] = "{" /\ data[3] = "}" /\ data[2] \in DeltaContents
    THEN [ threw |-> FALSE, content |-> data[2] ]
    ELSE [ threw |-> TRUE ]

\* one server-sent event
EventLine(data) == DataPrefix \o data \o << "\n", "\n" >>

\* the text of the response body
RECURSIVE Wire(_, _)
Wire(deltas, withDone) ==
    IF deltas = << >> THEN (IF withDone THEN EventLine(DoneText) ELSE << >>)
    ELSE EventLine(DeltaJson(Head(deltas))) \o Wire(Tail(deltas), withDone)

startsWith(line, prefix) ==
    Len(line) >= Len(prefix) /\ SubSeq(line, 1, Len(prefix)) = prefix

\* the for loop over the lines of one read; run.returned is set by the return at
\* [DONE]
RECURSIVE ForLines(_, _)
ForLines(lines, run) ==
    IF lines = << >> \/ run.returned THEN run
    ELSE LET line == Head(lines)
             data == SubSeq(line, Len(DataPrefix) + 1, Len(line))
             parsed == JSON_parse(data)
         IN  IF ~startsWith(line, DataPrefix) THEN ForLines(Tail(lines), run)
             ELSE IF data = DoneText
             THEN [ run EXCEPT !.completes = @ + 1, !.returned = TRUE ]
             ELSE IF parsed.threw THEN ForLines(Tail(lines), run)
             ELSE ForLines(Tail(lines),
                           [ run EXCEPT !.chunks = Append(@, parsed.content),
                                        !.late = @ \/ run.completes + run.errors > 0 ])

\* chunk.split('\n').filter(line => line.trim())
Lines(chunk) ==
    LET nonBlank(line) == Trim(line) # << >>
    IN  SeqFilter(Split(chunk, "\n"), nonBlank)

StreamFrame ==
    UNCHANGED << state, now, pending, lsConversations, lsCurrent, searchQuery,
                 filteredConversations, searchTimers, timerIsCurrent, loadResult,
                 isDev, randomDraws, nextSeq, toasts, rateLimitMap, rateLog,
                 lsSettings, lsUserData, saveResult, evaluated >>

\* the request is answered with a body, and the loop starts
StartStream ==
    /\ stream.phase = "idle"
    /\ \E deltas \in DeltaSeqs(MaxDeltas), withDone \in BOOLEAN :
          stream' = [ phase |-> "reading", sent |-> deltas,
                      wire |-> Wire(deltas, withDone), chunks |-> << >>,
                      completes |-> 0, errors |-> 0, late |-> FALSE,
                      returned |-> FALSE ]
    /\ StreamFrame

\* the request is rejected, or its response has no body
RequestFails ==
    /\ stream.phase = "idle"
    /\ stream' = [ phase |-> "ended", sent |-> << >>, wire |-> << >>,
                   chunks |-> << >>, completes |-> 0, errors |-> 1, late |-> FALSE,
                   returned |-> FALSE ]
    /\ StreamFrame

\* reader.read() yields the next bytes of the body, however many
ReadValue ==
    /\ stream.phase = "reading"
    /\ \E k \in 1..Len(stream.wire) :
          LET run == ForLines(Lines(SubSeq(stream.wire, 1, k)), stream)
          IN  stream' = [ run EXCEPT
                            !.wire = SubSeq(stream.wire, k + 1, Len(stream.wire)),
                            !.phase = IF run.returned THEN "ended" ELSE "reading" ]
    /\ StreamFrame

\* reader.read() yields done
ReadDone ==
    /\ stream.phase = "reading"
    /\ stream.wire = << >>
    /\ stream' = [ stream EXCEPT !.completes = @ + 1, !.phase = "ended" ]
    /\ StreamFrame

\* reader.read() rejects
ReadFails ==
    /\ stream.phase = "reading"
    /\ stream' = [ stream EXCEPT !.errors = @ + 1, !.phase = "ended" ]
    /\ StreamFrame

NextStream ==
    \/ StartStream
    \/ RequestFails
    \/ ReadValue
    \/ ReadDone
    \/ ReadFails

StreamSpec == Init /\ [][NextStream]_vars

(***************************************************************************)
(* components/MarkdownRenderer: parseMarkdown, and useMarkdownDetection.   *)
(* A text is a sequence of characters.  A tag that parseMarkdown inserts   *)
(* is one element of the sequence, written with single quotes around its   *)
(* attributes, so that it is told apart from the characters of the input.  *)
(***************************************************************************)
\* the character U+0060, which a string of this language cannot hold
Backtick == "U+0060"

Digits == { "0", "1", "2", "3", "4", "5", "6", "7", "8", "9" }

\* \w
IsWordChar(ch) == ch \in Range(Lower) \cup Range(Upper) \cup Digits \cup { "_" }

RECURSIVE Join(_, _)
Join(pieces, sep) ==
    IF pieces = << >> THEN << >>
    ELSE IF Len(pieces) = 1 THEN pieces[1]
    ELSE pieces[1] \o << sep >> \o Join(Tail(pieces), sep)

\* the first place at or after 1 where d stands in s, 0 if there is none; with
\* sameLine the place must come before the first line feed
Find(s, d, sameLine) ==
    LET hits == { j \in 1..(Len(s) - Len(d) + 1) :
                    /\ SubSeq(s, j, j + Len(d) - 1) = d
                    /\ sameLine => \A k \in 1..(j - 1) : s[k] # "\n" }
    IN  IF hits = {} THEN 0 ELSE CHOOSE j \in hits : \A k \in hits : j <= k

\* html.replace(/^<mark>(.*$)/gim, open + '$1' + close) on one line
Prefixed(line, mark, open, close) ==
    IF startsWith(line, mark)
    THEN << open >> \o SubSeq(line, Len(mark) + 1, Len(line)) \o << close >>
    ELSE line

H3(line) ==
    Prefixed(line, << "#", "#", "#", " " >>,
             "<h3 class='font-bold text-lg mb-2 mt-4'>", "</h3>")

H2(line) ==
    Prefixed(line, << "#", "#", " " >>, "<h2 class='font-bold text-xl mb-2 mt-4'>", "</h2>")

H1(line) ==
    Prefixed(line, << "#", " " >>, "<h1 class='font-bold text-2xl mb-2 mt-4'>", "</h1>")

Blockquote(line) ==
    Prefixed(line, << ">", " " >>,
             "<blockquote class='border-l-4 border-muted-foreground/20 pl-4 italic text-muted-foreground my-2'>",
             "</blockquote>")

LiDisc == "<li class='ml-4 list-disc'>"

\* /^[-*] (.*$)/gim on one line
ListItem(line) ==
    IF startsWith(line, << "-", " " >>) \/ startsWith(line, << "*", " " >>)
    THEN << LiDisc >> \o SubSeq(line, 3, Len(line)) \o << "</li>" >>
    ELSE line

\* /^\d+\. (.*$)/gim on one line
OrderedItem(line) ==
    LET n == CHOOSE k \in 0..Len(line) :
                 /\ \A i \in 1..k : line[i] \in Digits
                 /\ k < Len(line) => line[k + 1] \notin Digits
    IN  IF n >= 1 /\ Len(line) >= n + 2 /\ line[n + 1] = "." /\ line[n + 2] = " "
        THEN << "<li class='ml-4 list-decimal'>" >> \o SubSeq(line, n + 3, Len(line))
                 \o << "</li>" >>
        ELSE line

\* html.replace(/d(.*?)d/g, open + '$1' + close): at a delimiter the nearest one
\* after it on the same line closes the span
RECURSIVE Delimited(_, _, _, _)
Delimited(s, d, open, close) ==
    IF s = << >> THEN << >>
    ELSE LET rest == SubSeq(s, Len(d) + 1, Len(s))
             j == Find(rest, d, TRUE)
         IN  IF startsWith(s, d) /\ j > 0
             THEN << open >> \o SubSeq(rest, 1, j - 1) \o << close >>
                      \o Delimited(SubSeq(rest, j + Len(d), Len(rest)), d, open, close)
             ELSE << Head(s) >> \o Delimited(Tail(s), d, open, close)

\* html.replace(/`([^`]+)`/g, ...): the span may hold line feeds, not a backtick,
\* and is inserted as it stands
RECURSIVE InlineCode(_)
InlineCode(s) ==
    IF s = << >> THEN << >>
    ELSE LET rest == Tail(s)
             j == Find(rest, << Backtick >>, FALSE)
         IN  IF Head(s) = Backtick /\ j > 1
             THEN << "<code class='bg-muted px-1.5 py-0.5 rounded text-sm font-mono'>" >>
                      \o SubSeq(rest, 1, j - 1) \o << "</code>" >>
                      \o InlineCode(SubSeq(rest, j + 1, Len(rest)))
             ELSE << Head(s) >> \o InlineCode(rest)

\* escapeHtml: the innerHTML of an element whose textContent is the text
escapeHtml(text) == sanitizeInput(text)

Fence == << Backtick, Backtick, Backtick >>

\* what a fenced block is replaced with; language is empty in the second pass
CodeBlock(language, code, named) ==
    << "<div class='bg-muted/50 border rounded-lg p-4 my-2 overflow-x-auto'>", "\n" >>
        \o Repeat(" ", 6)
        \o (IF named
            THEN << "<div class='text-xs text-muted-foreground mb-2 font-mono'>" >>
                     \o (IF language = << >> THEN << "t", "e", "x", "t" >> ELSE language)
                     \o << "</div>", "\n" >> \o Repeat(" ", 6)
            ELSE << >>)
        \o << "<pre class='text-sm font-mono overflow-x-auto'>", "<code>" >>
        \o escapeHtml(Trim(code))
        \o << "</code>", "</pre>", "\n" >> \o Repeat(" ", 4) \o << "</div>" >>

\* html.replace(/```(\w+)?\n([\s\S]*?)```/g, ...) when named, and
\* html.replace(/```\n([\s\S]*?)```/g, ...) when not
RECURSIVE CodeBlocks(_, _)
CodeBlocks(s, named) ==
    IF s = << >> THEN << >>
    ELSE LET after == SubSeq(s, Len(Fence) + 1, Len(s))
             w == IF named
                  THEN (CHOOSE k \in 0..Len(after) :
                            /\ \A i \in 1..k : IsWordChar(after[i])
                            /\ k < Len(after) => ~IsWordChar(after[k + 1]))
                  ELSE 0
             body == SubSeq(after, w + 2, Len(after))
             j == Find(body, Fence, FALSE)
         IN  IF /\ startsWith(s, Fence)
                /\ Len(after) > w
                /\ after[w + 1] = "\n"
                /\ j > 0
             THEN CodeBlock(SubSeq(after, 1, w), SubSeq(body, 1, j - 1), named)
                      \o CodeBlocks(SubSeq(body, j + Len(Fence), Len(body)), named)
             ELSE << Head(s) >> \o CodeBlocks(Tail(s), named)

\* html.replace(/\[([^\]]+)\]\(([^)]+)\)/g, ...)
RECURSIVE Links(_)
Links(s) ==
    IF s = << >> THEN << >>
    ELSE LET rest == Tail(s)
             j == Find(rest, << "]" >>, FALSE)
             url == SubSeq(rest, j + 2, Len(rest))
             k == Find(url, << ")" >>, FALSE)
         IN  IF /\ Head(s) = "["
                /\ j > 1
                /\ Len(rest) > j
                /\ rest[j + 1] = "("
                /\ k > 1
             THEN << "<a href='" >> \o SubSeq(url, 1, k - 1)
                      \o << "' class='text-primary hover:underline' target='_blank' rel='noopener noreferrer'>" >>
                      \o SubSeq(rest, 1, j - 1) \o << "</a>" >>
                      \o Links(SubSeq(url, k + 1, Len(url)))
             ELSE << Head(s) >> \o Links(rest)

\* html.replace(/(<li.*<\/li>)/s, '<ul class="my-2">$1</ul>'): once, from the first
\* list item to the end of the last (the contents drawn hold no '<li' of their own)
ListWrap(s) ==
    LET opens == { i \in 1..Len(s) : s[i] = LiDisc }
        closes == { i \in 1..Len(s) : s[i] = "</li>" }
    IN  IF opens = {} THEN s
        ELSE LET a == CHOOSE i \in opens : \A k \in opens : i <= k
                 b == CHOOSE i \in closes : \A k \in closes : i >= k
             IN  SubSeq(s, 1, a - 1) \o << "<ul class='my-2'>" >> \o SubSeq(s, a, b)
                     \o << "</ul>" >> \o SubSeq(s, b + 1, Len(s))

\* html.replace(/\n/g, '<br>')
LineBreak(ch) == IF ch = "\n" THEN "<br>" ELSE ch

\* html.replace(/- \[ \] (.*)/g, ...) and html.replace(/- \[x\] (.*)/g, ...): the
\* label runs to the end of the line, which by now is the end of the text
RECURSIVE Checkboxes(_, _, _)
Checkboxes(s, box, open) ==
    LET j == Find(s, box, FALSE)
        rest == SubSeq(s, j + Len(box), Len(s))
        stop == Find(rest, << "\n" >>, FALSE)
        label == IF stop = 0 THEN rest ELSE SubSeq(rest, 1, stop - 1)
    IN  IF j = 0 THEN s
        ELSE SubSeq(s, 1, j - 1) \o << open, " ", "<span>" >> \o label
                 \o << "</span>", "</div>" >>
                 \o Checkboxes(SubSeq(rest, Len(label) + 1, Len(rest)), box, open)

Unchecked == << "-", " ", "[", " ", "]", " " >>

Checked == << "-", " ", "[", "x", "]", " " >>

BoxOpen == "<div class='flex items-center gap-2 my-1'><input type='checkbox' disabled class='h-4 w-4' />"

CheckedBoxOpen == "<div class='flex items-center gap-2 my-1'><input type='checkbox' checked disabled class='h-4 w-4' />"

\* parseMarkdown: the passes in the order of the source
parseMarkdown(text) ==
    LET headers == Join(SeqMap(SeqMap(SeqMap(Split(text, "\n"), H3), H2), H1), "\n")
        bold == Delimited(Delimited(headers, << "*", "*" >>,
                                    "<strong class='font-semibold'>", "</strong>"),
                          << "_", "_" >>, "<strong class='font-semibold'>", "</strong>")
        italic == Delimited(Delimited(bold, << "*" >>, "<em class='italic'>", "</em>"),
                            << "_" >>, "<em class='italic'>", "</em>")
        strike == Delimited(italic, << "~", "~" >>,
                            "<del class='line-through opacity-75'>", "</del>")
        blocks == CodeBlocks(CodeBlocks(InlineCode(strike), TRUE), FALSE)
        quoted == Join(SeqMap(Split(Links(blocks), "\n"), Blockquote), "\n")
        listed == ListWrap(Join(SeqMap(Split(quoted, "\n"), ListItem), "\n"))
        ordered == Join(SeqMap(Split(listed, "\n"), OrderedItem), "\n")
        broken == SeqMap(ordered, LineBreak)
    IN  Checkboxes(Checkboxes(broken, Unchecked, BoxOpen), Checked, CheckedBoxOpen)

\* pattern.test(content) for /open.*?close/: the two stand on one line
HasSpan(s, open, close) ==
    \E i \in 1..Len(s) :
        /\ startsWith(SubSeq(s, i, Len(s)), open)
        /\ Find(SubSeq(s, i + Len(open), Len(s)), close, TRUE) > 0

\* the places where a line starts
LineStarts(s) == { i \in 1..Len(s) : i = 1 \/ s[i - 1] = "\n" }

\* /^<mark>\s/m
HasMarker(s, marks) ==
    \E i \in LineStarts(s) :
        /\ s[i] \in marks
        /\ i < Len(s)
        /\ IsSpace(s[i + 1])

useMarkdownDetection(content) ==
    \/ \E i \in LineStarts(content), n \in 1..6 :
          /\ i + n <= Len(content)
          /\ \A k \in i..(i + n - 1) : content[k] = "#"
          /\ IsSpace(content[i + n])
    \/ HasSpan(content, << "*", "*" >>, << "*", "*" >>)
    \/ HasSpan(content, << "*" >>, << "*" >>)
    \/ HasSpan(content, << Backtick >>, << Backtick >>)
    \/ \E i \in 1..Len(content) :
          /\ startsWith(SubSeq(content, i, Len(content)), Fence)
          /\ Find(SubSeq(content, i + 3, Len(content)), Fence, FALSE) > 0
    \/ \E i \in 1..Len(content) :
          LET rest == SubSeq(content, i + 1, Len(content))
              j == Find(rest, << "]", "(" >>, TRUE)
          IN  /\ content[i] = "["
              /\ j > 0
              /\ Find(SubSeq(rest, j + 2, Len(rest)), << ")" >>, TRUE) > 0
    \/ HasMarker(content, { ">" })
    \/ HasMarker(content, { "-", "*" })
    \/ \E i \in LineStarts(content), n \in 1..Len(content) :
          /\ i + n + 1 <= Len(content)
          /\ \A k \in i..(i + n - 1) : content[k] \in Digits
          /\ content[i + n] = "."
          /\ IsSpace(content[i + n + 1])
    \/ HasSpan(content, << "~", "~" >>, << "~", "~" >>)

MaxMarks == 3

\* what a message is put together from
Marks ==
    { << "a" >>, << " " >>, << "\n" >>, << "<" >>, << Backtick >>, << "_" >>, << "*" >>,
      << "#", " " >>, << "1", ".", " " >>, Unchecked, Checked,
      Fence \o << "\n" >>, << "\n" >> \o Fence }

RECURSIVE Marked(_)
Marked(n) ==
    IF n = 0 THEN { << >> }
    ELSE Marked(n - 1) \cup { text \o mark : text \in Marked(n - 1), mark \in Marks }

\* MarkdownRenderer renders a content
RenderMarkdown ==
    /\ evaluated.fn = "none"
    /\ \E content \in Marked(MaxMarks) :
          evaluated' = [ fn |-> "parseMarkdown", input |-> content,
                         output |-> parseMarkdown(content),
                         detected |-> useMarkdownDetection(content) ]
    /\ EvalFrame

MarkdownSpec == Init /\ [][RenderMarkdown]_vars

\* the store, with every completion request coming to an end: the request is made
\* with a timeout and sendMessage awaits nothing else
FairStoreSpec == StoreSpec /\ WF_vars(Resolve)

(***************************************************************************)
(* C1.  The active pointer and the list.                                   *)
(***************************************************************************)
\* C1: in every reachable state currentConversationId is null or the id of a
\* conversation present in state.conversations.
C1_PointerIsListed ==
    \/ state.currentConversationId = Null
    \/ HasConversation(state, state.currentConversationId)

(***************************************************************************)
(* C2.  DELETE_CONVERSATION and the active pointer.                        *)
(***************************************************************************)
\* the ids a DELETE_CONVERSATION may carry: those in the store, those the sidebar
\* still lists, and one that was never handed out
DeletableIds ==
    { state.conversations[i].id : i \in 1..Len(state.conversations) }
        \cup Range(filteredConversations) \cup { generateId(now, randomDraws) }

FirstOther(id) ==
    LET others == { i \in 1..Len(state.conversations) : state.conversations[i].id # id }
    IN  IF others = { } THEN Null
        ELSE state.conversations[CHOOSE i \in others : \A j \in others : i <= j].id

\* C2: for every reachable state and every id, DELETE_CONVERSATION(id) leaves the
\* pointer at the first remaining conversation, or at null when none remains, if
\* id was the active conversation, and leaves the pointer unchanged otherwise.
C2_DeleteReassignsPointer ==
    \A id \in DeletableIds :
        LET after == DELETE_CONVERSATION(state, id)
        IN  IF state.currentConversationId = id
            THEN /\ after.currentConversationId = FirstOther(id)
                 /\ \/ after.currentConversationId = Null
                    \/ HasConversation(after, after.currentConversationId)
            ELSE after.currentConversationId = state.currentConversationId

\* the active conversation is second in the list, so that deleting it moves the
\* pointer to the first
C2_ActiveHasSuccessor ==
    /\ Len(state.conversations) = 2
    /\ state.currentConversationId = state.conversations[2].id
    /\ DELETE_CONVERSATION(state, state.currentConversationId).currentConversationId
            = state.conversations[1].id

(***************************************************************************)
(* C3.  Where sendMessage appends.                                         *)
(***************************************************************************)
\* the messages of the store, each with the id of its conversation
Placed(s) ==
    UNION { { << s.conversations[i].id, s.conversations[i].messages[j] >> :
                j \in 1..Len(s.conversations[i].messages) } :
            i \in 1..Len(s.conversations) }

\* C3 as stated: every message sendMessage appends goes to the conversation that
\* is active at the moment it is appended.
C3_AppendedToActive ==
    \A p \in Placed(state) : p[2].toActive

\* C3, amended: a message sendMessage appends goes to the conversation that was
\* active when sendMessage was called, the user message at the call and the reply
\* when the request resolves, whichever conversation is active by then; and a
\* message that is in the store stays in the conversation it was appended to.
C3_AppendedWhereSent ==
    [][\A p \in Placed(state') :
          IF p[2].seq >= nextSeq
          THEN IF p[2].role = "user"
               THEN p[1] = state.currentConversationId
               ELSE pending # << >> /\ p[1] = Head(pending).activeAtCall
          ELSE \E q \in Placed(state) : q[1] = p[1] /\ q[2].seq = p[2].seq]_vars

\* a reply has been appended to a conversation that was not the active one
C3_ReplyWhileElsewhere ==
    \E p \in Placed(state) : p[2].role = "assistant" /\ ~p[2].toActive

(***************************************************************************)
(* C4.  One send: one user message, one reply.                             *)
(***************************************************************************)
\* the messages with the given role in the conversation with the given id
WithRole(s, id, role) ==
    { p \in Placed(s) : p[1] = id /\ p[2].role = role }

\* the step is a sendMessage call made while a conversation is marked active
SendStep == HandleSubmit /\ state.currentConversationId # Null

\* C4 as stated: a send into the active conversation appends the user message once
\* and sets isLoading, which stays set while the request is pending; when the
\* request resolves, one assistant message has been appended to that conversation
\* and isLoading is false.
C4_OneReplyPerSend ==
    [][/\ SendStep =>
            /\ Cardinality(WithRole(state', state.currentConversationId, "user"))
                  = Cardinality(WithRole(state, state.currentConversationId, "user")) + 1
            /\ state'.isLoading
       /\ pending' # << >> => state'.isLoading
       /\ Resolve =>
            /\ Cardinality(WithRole(state', Head(pending).conversationId, "assistant"))
                  = Cardinality(WithRole(state, Head(pending).conversationId,
                                         "assistant")) + 1
            /\ ~state'.isLoading]_vars

\* C4, amended: the same while the conversation is in the list.  A send into a
\* conversation that is marked active but is not in the list appends nothing and
\* leaves isLoading false; a request that resolves after its conversation was
\* deleted appends nothing and sets isLoading to false.
C4_OneReplyWhileListed ==
    [][/\ SendStep =>
            IF HasConversation(state, state.currentConversationId)
            THEN /\ Cardinality(WithRole(state', state.currentConversationId, "user"))
                       = Cardinality(WithRole(state, state.currentConversationId,
                                              "user")) + 1
                 /\ Cardinality(Placed(state')) = Cardinality(Placed(state)) + 1
                 /\ state'.isLoading
                 /\ Len(pending') = Len(pending) + 1
            ELSE /\ Placed(state') = Placed(state)
                 /\ ~state'.isLoading
                 /\ pending' = pending
       /\ pending' # << >> => state'.isLoading
       /\ Resolve =>
            /\ IF HasConversation(state, Head(pending).conversationId)
               THEN /\ Cardinality(WithRole(state', Head(pending).conversationId,
                                            "assistant"))
                          = Cardinality(WithRole(state, Head(pending).conversationId,
                                                 "assistant")) + 1
                    /\ Cardinality(Placed(state')) = Cardinality(Placed(state)) + 1
               ELSE Placed(state') = Placed(state)
            /\ ~state'.isLoading]_vars

\* a request is pending for a conversation that has been deleted
C4_PendingForDeleted ==
    /\ pending # << >>
    /\ ~HasConversation(state, Head(pending).conversationId)

(***************************************************************************)
(* C5.  The loading flag is cleared.                                       *)
(***************************************************************************)
\* C5: whenever isLoading is true it becomes false again, however the request
\* ends, and isLoading is true only while a request is pending.
C5_LoadingClears ==
    /\ [](state.isLoading => pending # << >>)
    /\ state.isLoading ~> ~state.isLoading

\* a request has ended in the catch block and the flag is clear again
C5_ClearedAfterFailure ==
    /\ ~state.isLoading
    /\ pending = << >>
    /\ \E p \in Placed(state) :
          p[2].role = "assistant" /\ p[2].content \in { ErrorText, SimulatedText(Hi) }

(***************************************************************************)
(* C6.  The title is taken from a message once.                            *)
(***************************************************************************)
\* C6: once the title of a conversation has been taken from a message, no later
\* action changes it.
C6_TitleDerivedOnce ==
    [][\A i \in 1..Len(state.conversations), j \in 1..Len(state'.conversations) :
          LET conv == state.conversations[i]
              next == state'.conversations[j]
          IN  conv.id = next.id /\ conv.titleSets >= 1 => next.title = conv.title]_vars

(***************************************************************************)
(* C7.  updatedAt.                                                         *)
(***************************************************************************)
\* the message ids an EDIT_MESSAGE or a DELETE_MESSAGE may carry for a conversation
MessageIds(conv) ==
    { conv.messages[j].id : j \in 1..Len(conv.messages) }
        \cup { generateId(now, randomDraws) }

\* C7: updatedAt >= createdAt for every conversation of every reachable state, and
\* an ADD_MESSAGE, EDIT_MESSAGE or DELETE_MESSAGE for a conversation sets its
\* updatedAt to the time at which the action is processed.
C7_UpdatedAtFollowsActions ==
    \A i \in 1..Len(state.conversations) :
        LET conv == state.conversations[i]
            added(role) ==
                ADD_MESSAGE(state,
                            [ conversationId |-> conv.id,
                              message |-> NewMessage(generateId(now, randomDraws), Hi,
                                                     role, now, nextSeq, TRUE) ],
                            now)
            edited(id, content) ==
                EDIT_MESSAGE(state, [ conversationId |-> conv.id, messageId |-> id,
                                      content |-> content ], now)
            deleted(id) ==
                DELETE_MESSAGE(state, [ conversationId |-> conv.id, messageId |-> id ],
                               now)
            timed(s) == /\ s.conversations[i].updatedAt = now
                        /\ s.conversations[i].updatedAt >= s.conversations[i].createdAt
        IN  /\ conv.updatedAt >= conv.createdAt
            /\ \A role \in { "user", "assistant" } : timed(added(role))
            /\ \A id \in MessageIds(conv) :
                  /\ timed(deleted(id))
                  /\ \A content \in Edits : timed(edited(id, content))

\* a conversation whose messages were changed after the clock had advanced
C7_UpdatedLater ==
    \E i \in 1..Len(state.conversations) :
        /\ state.conversations[i].updatedAt > state.conversations[i].createdAt
        /\ state.conversations[i].updatedAt = now
        /\ Len(state.conversations[i].messages) > 0

(***************************************************************************)
(* C8.  The order of the messages of a conversation.                       *)
(***************************************************************************)
\* C8: of two messages of a conversation, the one whose ADD_MESSAGE was dispatched
\* first comes first.
C8_DispatchOrder ==
    \A i \in 1..Len(state.conversations) :
        LET messages == state.conversations[i].messages
        IN  \A j, k \in 1..Len(messages) : j < k => messages[j].seq < messages[k].seq

\* a conversation holds three messages of two sends, one of them edited, and a
\* message sent in between has been deleted
C8_EditedAndDeleted ==
    \E i \in 1..Len(state.conversations) :
        LET messages == state.conversations[i].messages
        IN  /\ Len(messages) = 3
            /\ messages[3].seq > messages[1].seq + 2
            /\ \E j \in 1..3 : messages[j].role = "assistant" /\ messages[j].content = Ok

C10_LoadNeverThrows ==
    loadResult.called => ~loadResult.threw

(***************************************************************************)
(* C11.  A failing write and the save functions.                           *)
(***************************************************************************)
\* C11: no save function of lib/storage throws, also when setItem throws for
\* lack of room.
C11_SaveNeverThrows ==
    saveResult.called => ~saveResult.threw

CallsFor(key) ==
    LET mine(call) == call.key = key
    IN  SelectSeq(rateLog, mine)

\* C13: of the calls for a key made until the window of its first call has
\* elapsed, the first maxRequests return true and every later one false; the
\* first call after the window returns true and leaves a count of 1.
C13_LimitThenRestart ==
    \A key \in RateKeys :
        LET calls == CallsFor(key)
            inWindow(i) == calls[i].t <= calls[1].t + calls[1].windowMs
        IN  \A i \in 1..Len(calls) :
               /\ inWindow(i) => (calls[i].ok <=> i <= calls[1].maxRequests)
               /\ (~inWindow(i) /\ (i = 1 \/ inWindow(i - 1))) =>
                      /\ calls[i].ok
                      /\ i = Len(calls) =>
                             rateLimitMap[key] =
                                 [ count |-> 1,
                                   resetTime |-> calls[i].t + calls[i].windowMs ]

\* a key was blocked within its window and admitted again after it
C13_BlockedThenAdmitted ==
    \E key \in RateKeys :
        LET calls == CallsFor(key)
        IN  /\ calls # << >>
            /\ Len(calls) = calls[1].maxRequests + 2
            /\ \A i \in 1..calls[1].maxRequests : calls[i].ok
            /\ ~calls[Len(calls) - 1].ok
            /\ calls[Len(calls)].ok
            /\ rateLimitMap[key].count = 1

(***************************************************************************)
(* C14.  A sliding window.                                                 *)
(***************************************************************************)
\* C14: in every interval of windowMs milliseconds, wherever it starts, at most
\* maxRequests calls for a key return true.
C14_SlidingWindow ==
    \A key \in RateKeys, start \in 0..RateHorizon :
        LET calls == CallsFor(key)
            admitted == { i \in 1..Len(calls) :
                            /\ calls[i].ok
                            /\ calls[i].t >= start
                            /\ calls[i].t < start + calls[i].windowMs }
        IN  calls # << >> => Cardinality(admitted) <= calls[1].maxRequests

(***************************************************************************)
(* C15.  A submit the limiter blocks.                                      *)
(***************************************************************************)
\* the limiter would block a call of handleSubmit made now
Blocked ==
    ~checkRateLimit(rateLimitMap, SendKey, SendLimit, SendWindow, now).ok

\* C15: a submit the limiter blocks leaves the store, the requests under way, the
\* stored items and the record of the limiter as they were.
C15_BlockedChangesNothing ==
    [][(SubmitAny /\ Blocked) =>
          /\ state' = state
          /\ pending' = pending
          /\ rateLimitMap' = rateLimitMap
          /\ nextSeq' = nextSeq
          /\ lsConversations' = lsConversations
          /\ lsCurrent' = lsCurrent]_vars

\* the limiter has just blocked a submit
C15_Warned ==
    /\ toasts = << "warning" >>
    /\ rateLimitMap[SendKey].count = SendLimit
    /\ now <= rateLimitMap[SendKey].resetTime

(***************************************************************************)
(* C16.  The reducer evaluated at two moments.                             *)
(***************************************************************************)
\* the message actions that can be dispatched for the conversations of the store
MessageActions ==
    UNION { { AddMessage(state.conversations[i].id,
                         NewMessage(generateId(now, randomDraws), Hi, "user", now,
                                    nextSeq, TRUE)) }
            \cup { [ type |-> "EDIT_MESSAGE",
                     payload |-> [ conversationId |-> state.conversations[i].id,
                                   messageId |-> state.conversations[i].messages[j].id,
                                   content |-> Ok ] ]
                   : j \in 1..Len(state.conversations[i].messages) }
            \cup { [ type |-> "DELETE_MESSAGE",
                     payload |-> [ conversationId |-> state.conversations[i].id,
                                   messageId |-> state.conversations[i].messages[j].id ] ]
                   : j \in 1..Len(state.conversations[i].messages) }
            : i \in 1..Len(state.conversations) }

\* C16: for the state of the store and every message action, the reducer
\* evaluated at two different moments yields the same state, updatedAt included.
C16_ReducerDeterministic ==
    \A action \in MessageActions :
        chatReducer(state, action, now) = chatReducer(state, action, now + 1)

(***************************************************************************)
(* C17.  Ids within the store and within a conversation.                   *)
(***************************************************************************)
\* no two conversations of s share an id, nor two messages of one conversation
IdsUnique(s) ==
    /\ \A i, j \in 1..Len(s.conversations) :
          s.conversations[i].id = s.conversations[j].id => i = j
    /\ \A i \in 1..Len(s.conversations) :
          \A j, k \in 1..Len(s.conversations[i].messages) :
              s.conversations[i].messages[j].id = s.conversations[i].messages[k].id
                  => j = k

\* the ids the store holds
IdsOf(s) ==
    { s.conversations[i].id : i \in 1..Len(s.conversations) }
        \cup { p[2].id : p \in Placed(s) }

C18_ChunksAsSent ==
    stream.phase = "ended" =>
        /\ stream.completes + stream.errors = 1
        /\ ~stream.late
        /\ stream.completes = 1 => stream.chunks = stream.sent

(***************************************************************************)
(* C19.  A completion request that fails.                                  *)
(***************************************************************************)
\* the ways a completion request fails inside the try block of sendMessage
Failures == { outcome \in Outcomes : outcome.kind \in { "malformed", "failed" } }

\* the messages a step appends
Appended == { p \in Placed(state') : p[2].seq >= nextSeq }

\* what the catch block leaves behind for the request at the head of pending
Caught(dev, listed) ==
    /\ ~state'.isLoading
    /\ toasts' = IF dev THEN << >> ELSE << "error" >>
    /\ IF listed
       THEN /\ Cardinality(Appended) = 1
            /\ \A p \in Appended :
                  /\ p[1] = Head(pending).conversationId
                  /\ p[2].role = "assistant"
                  /\ p[2].content = IF dev THEN SimulatedText(Head(pending).content)
                                    ELSE ErrorText
       ELSE Appended = {}

\* C19 as stated: when the completion request fails, sendMessage ends with the
\* loading flag cleared and either, with no endpoint and no key configured, one
\* simulated assistant message appended and no toast, or one error assistant
\* message appended and one error toast.
C19_FailureAnswered ==
    [][\A outcome \in Failures, dev \in BOOLEAN :
          resolve(outcome, dev) => Caught(dev, TRUE)]_vars

\* C19, amended: the same while the conversation of the request is still listed;
\* for a conversation deleted in the meantime no message is appended, and the
\* error toast is raised all the same.
C19_FailureAnsweredWhileListed ==
    [][\A outcome \in Failures, dev \in BOOLEAN :
          resolve(outcome, dev)
              => Caught(dev, HasConversation(state, Head(pending).conversationId))]_vars

\* a failed request has left an error message and an error toast
C19_ErrorShown ==
    /\ toasts = << "error" >>
    /\ isDev = { FALSE }
    /\ ~state.isLoading
    /\ \E p \in Placed(state) : p[2].role = "assistant" /\ p[2].content = ErrorText

(***************************************************************************)
(* C20.  The contents that enter the store through the chat input.         *)
(***************************************************************************)
\* C20: a message that a submit appends or an edit rewrites has a content of 1 to
\* 4000 characters that is not only whitespace, and a submit or an edit that is
\* rejected as invalid changes nothing in the store.
C20_ContentWithinLimit ==
    [][(SubmitLong \/ EditLong) =>
          /\ \A p \in Placed(state') \ Placed(state) :
                 validateMessageContent(p[2].content)
          /\ \A i \in 1..Len(pending') :
                 validateMessageContent(pending'[i].content)
          /\ toasts' = << "error" >> => state' = state]_vars

(***************************************************************************)
(* C21.  One completion request at a time.                                 *)
(***************************************************************************)
\* C21: at most one completion request is in flight, and while one is in flight
\* isLoading is true, so that isLoading = false means no request is pending and
\* no submit passes handleSubmit before the request has ended.
C21_OneInFlight ==
    /\ Len(pending) <= 1
    /\ pending # << >> => state.isLoading

\* a request is in flight for a conversation that holds an earlier exchange
C21_SecondRequest ==
    /\ Len(pending) = 1
    /\ state.isLoading
    /\ \E p \in Placed(state) :
          p[1] = Head(pending).conversationId /\ p[2].role = "assistant"

(***************************************************************************)
(* C25.  What EDIT_MESSAGE leaves alone.                                   *)
(***************************************************************************)
\* the payloads of EDIT_MESSAGE for the conversations of the store and for a
\* conversation and a message that are not there
EditPayloads ==
    LET absent == generateId(now + 1, randomDraws)
        listed == { state.conversations[i].id : i \in 1..Len(state.conversations) }
    IN  [ conversationId : listed \cup { absent },
          messageId : { p[2].id : p \in Placed(state) } \cup { absent },
          content : { Ok } ]

\* C25: EDIT_MESSAGE changes the content of the messages with the given id in the
\* given conversation and the updatedAt of that conversation, and nothing else: the
\* other fields of every message, the number and order of the messages, the title,
\* the other conversations, currentConversationId and isLoading stay as they were,
\* and the list is unchanged when no conversation has the given id.
C25_EditFrame ==
    \A payload \in EditPayloads :
        LET r == EDIT_MESSAGE(state, payload, now + 1)
        IN  /\ r.currentConversationId = state.currentConversationId
            /\ r.isLoading = state.isLoading
            /\ r.sessionId = state.sessionId
            /\ Len(r.conversations) = Len(state.conversations)
            /\ \A i \in 1..Len(state.conversations) :
                  LET old == state.conversations[i]
                      new == r.conversations[i]
                  IN  IF old.id # payload.conversationId THEN new = old
                      ELSE /\ [ new EXCEPT !.messages = old.messages,
                                           !.updatedAt = old.updatedAt ] = old
                           /\ Len(new.messages) = Len(old.messages)
                           /\ \A j \in 1..Len(old.messages) :
                                 IF old.messages[j].id = payload.messageId
                                 THEN new.messages[j]
                                        = [ old.messages[j] EXCEPT
                                              !.content = payload.content ]
                                 ELSE new.messages[j] = old.messages[j]

\* an edit has rewritten a reply while the store holds another conversation
C25_EditedBesideAnother ==
    /\ Len(state.conversations) >= 2
    /\ \E p \in Placed(state) : p[2].role = "assistant" /\ p[2].content = Ok

(***************************************************************************)
(* C30.  sendMessage without an active conversation.                       *)
(***************************************************************************)
\* C30: a submit that reaches sendMessage while currentConversationId is null puts
\* one new conversation without messages and with the title 'New Chat' at the
\* head of the list, makes it active, and does nothing else: no message is
\* appended anywhere, isLoading stays false and no request is issued.
C30_NullPointerOnlyCreates ==
    [][(HandleSubmit /\ state.currentConversationId = Null /\ toasts' = << >>) =>
          /\ Len(state'.conversations) = Len(state.conversations) + 1
          /\ Tail(state'.conversations) = state.conversations
          /\ Head(state'.conversations).messages = << >>
          /\ Head(state'.conversations).title = NewChat
          /\ state'.currentConversationId = Head(state'.conversations).id
          /\ Placed(state') = Placed(state)
          /\ ~state.isLoading /\ ~state'.isLoading
          /\ pending' = pending]_vars

\* the first submit has made a conversation and sent nothing
C30_CreatedBySubmit ==
    /\ Len(state.conversations) = 1
    /\ state.conversations[1].messages = << >>
    /\ state.currentConversationId = state.conversations[1].id
    /\ pending = << >>
    /\ SendKey \in DOMAIN rateLimitMap

(***************************************************************************)
(* C28.  The store after deleteConversation.                               *)
(***************************************************************************)
\* C28: after deleteConversation, called once or twice before the provider renders
\* again, the store holds at least one conversation and currentConversationId is
\* the id of one of them.
C28_NeverEmptyAfterDelete ==
    [][(DeleteConversation \/ DeleteTwice) =>
          /\ Len(state'.conversations) >= 1
          /\ HasConversation(state', state'.currentConversationId)]_vars

(***************************************************************************)
(* C29.  The session id and the active conversation.                       *)
(***************************************************************************)
\* C29: sessionId is set only by the response to a request that was sent from the
\* conversation that is active when the response arrives, and a step that makes
\* another conversation active leaves sessionId null.
C29_SessionOfActive ==
    [][/\ (state'.sessionId # Null /\ state'.sessionId # state.sessionId)
            => /\ pending # << >>
               /\ Head(pending).conversationId = state'.currentConversationId
       /\ state'.currentConversationId # state.currentConversationId
            => state'.sessionId = Null]_vars

(***************************************************************************)
(* C27.  The store after the mount effect.                                 *)
(***************************************************************************)
\* C27: when the key holds a list that is not empty, after the mount effect the
\* list of the store is the list loaded, currentConversationId is the stored id if
\* the list holds it and otherwise the id of a conversation with the greatest
\* updatedAt, it is the id of a listed conversation, and the key still holds the
\* list.
C27_Rehydrated ==
    [][LET loaded == conversationStorage_load(lsConversations)
           saved == currentConversationStorage_load(lsCurrent)
           listed(id) == \E i \in 1..Len(loaded.value) : loaded.value[i].id = id
       IN  (Mount /\ ~loaded.threw /\ Len(loaded.value) > 0) =>
              /\ state'.conversations = loaded.value
              /\ state'.currentConversationId # Null
              /\ HasConversation(state', state'.currentConversationId)
              /\ IF listed(saved) THEN state'.currentConversationId = saved
                 ELSE \E i \in 1..Len(loaded.value) :
                         /\ loaded.value[i].id = state'.currentConversationId
                         /\ \A j \in 1..Len(loaded.value) :
                               loaded.value[i].updatedAt >= loaded.value[j].updatedAt
              /\ conversationStorage_load(lsConversations') = loaded]_vars

\* the page has come up on the stored conversation, which is not the most recent
C27_StoredOneShown ==
    /\ loadResult.called
    /\ Len(state.conversations) = 2
    /\ \E i, j \in 1..2 :
          /\ state.conversations[i].id = state.currentConversationId
          /\ state.conversations[i].updatedAt < state.conversations[j].updatedAt

(***************************************************************************)
(* C24.  The title taken from a first message.                             *)
(***************************************************************************)
IsPrefix(p, s) == Len(p) <= Len(s) /\ SubSeq(s, 1, Len(p)) = p

\* the positions of the sentence terminators of a text
Terminators(s) == { i \in 1..Len(s) : s[i] \in { ".", "!", "?" } }

\* the title of a message longer than the limit: cut before the first terminator if
\* its sentence fits and sentences may be empty or not, else after a whole word
\* if one fits, else anywhere; isGap tells what separates two words
TitleOfLong(title, cleaned, emptySentence, isGap(_)) ==
    LET first == CHOOSE i \in Terminators(cleaned) :
                     \A j \in Terminators(cleaned) : i <= j
        bySentence == /\ Terminators(cleaned) # {}
                      /\ first - 1 <= TitleLimit
                      /\ emptySentence \/ first > 1
    IN  IF bySentence THEN title = TrimEnd(SubSeq(cleaned, 1, first - 1))
        ELSE IF \E i \in 2..(TitleLimit + 1) : isGap(cleaned[i])
        THEN isGap(cleaned[Len(title) + 1])
        ELSE Len(title) = TitleLimit

IsCodeOnly(text) ==
    \/ /\ Len(text) >= 3
       /\ Head(text) = Backtick /\ text[Len(text)] = Backtick
       /\ \A i \in 2..(Len(text) - 1) : text[i] # Backtick
    \/ /\ Len(text) >= 8
       /\ startsWith(text, Fence \o << "\n" >>)
       /\ SubSeq(text, Len(text) - 3, Len(text)) = << "\n" >> \o Fence
       /\ \A i \in 5..(Len(text) - 4) : text[i] # Backtick

\* C22: the output of parseMarkdown for a text that is one inline code span or one
\* fenced code block holds no '<' and no '>' character of the input: such
\* characters appear as entities only.
C22_CodeIsEscaped ==
    (evaluated.fn = "parseMarkdown" /\ IsCodeOnly(evaluated.input)) =>
        \A i \in 1..Len(evaluated.output) : evaluated.output[i] \notin { "<", ">" }

(***************************************************************************)
(* C23.  Task list lines.                                                  *)
(***************************************************************************)
\* C23: a text that is the line '- [ ] a' or '- [x] a' is rendered as a checkbox
\* input, checked for [x], followed by the label.
C23_CheckboxRendered ==
    /\ (evaluated.fn = "parseMarkdown" /\ evaluated.input = Unchecked \o << "a" >>)
          => evaluated.output = << BoxOpen, " ", "<span>", "a", "</span>", "</div>" >>
    /\ (evaluated.fn = "parseMarkdown" /\ evaluated.input = Checked \o << "a" >>)
          => evaluated.output
                = << CheckedBoxOpen, " ", "<span>", "a", "</span>", "</div>" >>

(***************************************************************************)
(* C26.  Detection and translation.                                        *)
(***************************************************************************)
\* C26: for a content on which useMarkdownDetection returns false, parseMarkdown
\* returns the content with its line feeds replaced by line breaks and nothing
\* else changed.
C26_UndetectedIsPlain ==
    (evaluated.fn = "parseMarkdown" /\ ~evaluated.detected) =>
        evaluated.output = SeqMap(evaluated.input, LineBreak)

====
